---- MODULE Spec2Model ----
(***************************************************************************)
(* Model of the SpotScanner engine of FidelioAI (components/SpotScanner):  *)
(* flow aggregation per symbol, the rule check, and the signal lifecycle   *)
(* (ACTIVE / COOLDOWN / removed) driven by the React effect that runs when *)
(* the ticker data, the pause flag or the rules change.                    *)
(*                                                                         *)
(* Numbers.  JavaScript numbers are modelled as exact extended rationals:  *)
(* a record [n, d] in lowest terms with d > 0 is the rational n/d, [1,0]   *)
(* is +Infinity, [-1,0] is -Infinity and [0,0] is NaN.  Rounding of IEEE   *)
(* doubles is not modelled; NaN and the infinities behave as in            *)
(* JavaScript (every comparison with NaN is false).                        *)
(*                                                                         *)
(* Symbols.  A symbol is a sequence of asset codes: <<"BTC","USDT">> is    *)
(* the string "BTCUSDT".                                                   *)
(***************************************************************************)
EXTENDS Integers, Sequences, FiniteSets, TLC

(* ------------------------------------------------------------------ *)
(* Extended rational arithmetic (JavaScript number semantics)          *)
(* ------------------------------------------------------------------ *)

Abs(i) == IF i < 0 THEN -i ELSE i

Sgn(i) == IF i > 0 THEN 1 ELSE IF i < 0 THEN -1 ELSE 0

RECURSIVE GCD(_, _)
GCD(a, b) == IF b = 0 THEN a ELSE GCD(b, a % b)

NaN == [n |-> 0, d |-> 0]

PosInf == [n |-> 1, d |-> 0]

Norm(n, d) ==
    IF d = 0 THEN [n |-> Sgn(n), d |-> 0]
    ELSE LET g == GCD(Abs(n), Abs(d))
             s == Sgn(d)
         IN  [n |-> (s * n) \div g, d |-> (s * d) \div g]

R(i) == [n |-> i, d |-> 1]

IsNaN(x) == x.d = 0 /\ x.n = 0

IsFinite(x) == x.d > 0

Neg(x) == [n |-> -x.n, d |-> x.d]

Add(x, y) ==
    IF IsNaN(x) \/ IsNaN(y) THEN NaN
    ELSE IF IsFinite(x) /\ IsFinite(y)
         THEN LET g == GCD(x.d, y.d)
              IN  Norm(x.n * (y.d \div g) + y.n * (x.d \div g), (x.d \div g) * y.d)
    ELSE IF IsFinite(x) THEN y
    ELSE IF IsFinite(y) THEN x
    ELSE IF x.n = y.n THEN x ELSE NaN

Sub(x, y) == Add(x, Neg(y))

Mul(x, y) ==
    IF IsNaN(x) \/ IsNaN(y) THEN NaN
    ELSE IF IsFinite(x) /\ IsFinite(y)
         THEN LET g1 == GCD(Abs(x.n), y.d)
                  g2 == GCD(Abs(y.n), x.d)
              IN  IF x.n = 0 \/ y.n = 0 THEN R(0)
                  ELSE Norm((x.n \div g1) * (y.n \div g2), (x.d \div g2) * (y.d \div g1))
    ELSE IF x.n = 0 \/ y.n = 0 THEN NaN
    ELSE [n |-> Sgn(x.n) * Sgn(y.n), d |-> 0]

Inv(y) ==
    IF y.n > 0 THEN [n |-> y.d, d |-> y.n]
    ELSE IF y.n < 0 THEN [n |-> -y.d, d |-> -y.n]
    ELSE IF y.d = 0 THEN NaN ELSE PosInf

Div(x, y) == Mul(x, Inv(y))

\* sign of a/b - c/d for b, d > 0, by comparing floors and then the reciprocals
\* of the fractional parts (no product, so no overflow)
RECURSIVE Cmp(_, _, _, _)
Cmp(a, b, c, d) ==
    LET q1 == a \div b
        q2 == c \div d
        r1 == a % b
        r2 == c % d
    IN  IF q1 # q2 THEN (IF q1 < q2 THEN -1 ELSE 1)
        ELSE IF r1 = 0 THEN (IF r2 = 0 THEN 0 ELSE -1)
        ELSE IF r2 = 0 THEN 1
        ELSE -Cmp(b, r1, d, r2)

Lt(x, y) ==
    /\ ~IsNaN(x)
    /\ ~IsNaN(y)
    /\ IF IsFinite(x) /\ IsFinite(y) THEN Cmp(x.n, x.d, y.n, y.d) < 0
       ELSE IF IsFinite(x) THEN y.n > 0
       ELSE IF IsFinite(y) THEN x.n < 0
       ELSE x.n < y.n

Gt(x, y) == Lt(y, x)

Eq(x, y) == ~IsNaN(x) /\ ~IsNaN(y) /\ x = y

Le(x, y) == Lt(x, y) \/ Eq(x, y)

Ge(x, y) == Le(y, x)

AbsR(x) == [n |-> Abs(x.n), d |-> x.d]

\* Naturals of any size as sequences of base-10000 digits, lowest digit first, for
\* comparing sums whose common denominator does not fit a machine integer
BigBase == 10 * 1000

RECURSIVE BigOf(_)
BigOf(i) == IF i = 0 THEN <<>> ELSE <<i % BigBase>> \o BigOf(i \div BigBase)

RECURSIVE BigScale(_, _, _)
BigScale(a, digit, carry) ==
    IF a = <<>> THEN (IF carry = 0 THEN <<>> ELSE <<carry>>)
    ELSE <<(Head(a) * digit + carry) % BigBase>>
            \o BigScale(Tail(a), digit, (Head(a) * digit + carry) \div BigBase)

RECURSIVE BigAdd(_, _, _)
BigAdd(a, b, carry) ==
    IF a = <<>> /\ b = <<>> THEN (IF carry = 0 THEN <<>> ELSE <<carry>>)
    ELSE IF a = <<>> THEN BigAdd(<<0>>, b, carry)
    ELSE IF b = <<>> THEN BigAdd(a, <<0>>, carry)
    ELSE <<(Head(a) + Head(b) + carry) % BigBase>>
            \o BigAdd(Tail(a), Tail(b), (Head(a) + Head(b) + carry) \div BigBase)

RECURSIVE BigMul(_, _)
BigMul(a, b) ==
    IF b = <<>> THEN <<>>
    ELSE BigAdd(BigScale(a, Head(b), 0), <<0>> \o BigMul(a, Tail(b)), 0)

RECURSIVE BigTrim(_)
BigTrim(a) ==
    IF a # <<>> /\ a[Len(a)] = 0 THEN BigTrim(SubSeq(a, 1, Len(a) - 1)) ELSE a

\* sign of a - b for two digit sequences of the same length
RECURSIVE BigCmpDigits(_, _)
BigCmpDigits(a, b) ==
    IF a = <<>> THEN 0
    ELSE IF a[Len(a)] # b[Len(b)] THEN (IF a[Len(a)] < b[Len(b)] THEN -1 ELSE 1)
    ELSE BigCmpDigits(SubSeq(a, 1, Len(a) - 1), SubSeq(b, 1, Len(b) - 1))

BigCmpTrimmed(a, b) ==
    IF Len(a) # Len(b) THEN (IF Len(a) < Len(b) THEN -1 ELSE 1) ELSE BigCmpDigits(a, b)

BigCmp(a, b) == BigCmpTrimmed(BigTrim(a), BigTrim(b))

\* numerator of x + y over the denominator x.d * y.d, for finite x, y >= 0
BigSumNum(x, y) ==
    BigAdd(BigMul(BigOf(x.n), BigOf(y.d)), BigMul(BigOf(y.n), BigOf(x.d)), 0)

\* the sign of (x1 + x2) - (y1 + y2), as a number
SumDiffSign(x1, x2, y1, y2) ==
    IF \A x \in {x1, x2, y1, y2} : IsFinite(x) /\ x.n >= 0
    THEN R(BigCmp(BigMul(BigSumNum(x1, x2), BigMul(BigOf(y1.d), BigOf(y2.d))),
                  BigMul(BigSumNum(y1, y2), BigMul(BigOf(x1.d), BigOf(x2.d)))))
    ELSE Sub(Add(x1, x2), Add(y1, y2))


(* ------------------------------------------------------------------ *)
(* Program constants                                                   *)
(* ------------------------------------------------------------------ *)

RETENTION_MS == 45000

DEBOUNCE_MS == 500

\* connectToBinance flushes at most once per THROTTLE_MS
THROTTLE_MS == 1000

DECAY == Norm(90, 100)

DAY_MS == 86400000

\* FidelioRadar: if (timeDelta >= 1000)
SPIKE_INTERVAL_MS == 1000

\* FidelioRadar: if (ratio >= 10)
SPIKE_RATIO == 10

\* FidelioRadar: const RETENTION_MS = 5 * 60 * 1000
SPIKE_RETENTION_MS == 5 * 60 * 1000

\* App: if (now - lastTime > 15000)
SIGNAL_COOLDOWN_MS == 15000

\* App: const FUNDING_THRESHOLD = 0.0003
FUNDING_THRESHOLD == Norm(3, 10 * 1000)

\* App: (priceChange / current.markPrice) > 0.0005
MOVE_THRESHOLD == Norm(5, 10 * 1000)

\* App: [...newSignals, ...prev].slice(0, 100)
SIGNALS_KEPT == 100

IGNORED_COINS ==
    {<<"USDC">>, <<"FDUSD">>, <<"TUSD">>, <<"BUSD">>, <<"DAI">>,
     <<"USDP">>, <<"USDE">>, <<"EURI">>, <<"EUR">>, <<"AEUR">>}

PresetName == {"DEFAULT", "WHALE_ACCUMULATION", "BREAKOUT", "DIP_SNIPER"}

PRESETS ==
    [p \in PresetName |->
       CASE p = "DEFAULT" ->
              [minRvol |-> Norm(15, 10), minPressure |-> R(0), maxPressure |-> R(100),
               minFlowUsdt |-> R(5000), minPriceChange |-> R(-100), maxPriceChange |-> R(100)]
         [] p = "WHALE_ACCUMULATION" ->
              [minRvol |-> R(3), minPressure |-> R(65), maxPressure |-> R(100),
               minFlowUsdt |-> R(50000), minPriceChange |-> R(-2), maxPriceChange |-> R(2)]
         [] p = "BREAKOUT" ->
              [minRvol |-> R(4), minPressure |-> R(60), maxPressure |-> R(100),
               minFlowUsdt |-> R(20000), minPriceChange |-> R(1), maxPriceChange |-> R(15)]
         [] p = "DIP_SNIPER" ->
              [minRvol |-> Norm(25, 10), minPressure |-> R(55), maxPressure |-> R(100),
               minFlowUsdt |-> R(10000), minPriceChange |-> R(-20), maxPriceChange |-> R(-2)]]

RuleField ==
    {"minRvol", "minPressure", "maxPressure", "minFlowUsdt", "minPriceChange", "maxPriceChange"}

(* ------------------------------------------------------------------ *)
(* Bounds and input sets                                               *)
(* ------------------------------------------------------------------ *)

\* the clock advances at most MaxAdvances times
MaxAdvances == 3

\* in the runs on two symbols the clock advances at most MaxClearAdvances times
MaxClearAdvances == 2

\* a symbol's cumulative quote volume grows at most MaxTrades times by one trade
MaxTrades == 3

\* cumulative quote volume at the start of a session: an average rate of 1 USDT/ms
SessionVolume == DAY_MS

\* quote volume of one trade
TradeVolume == 20 * 1000

BTC == <<"BTC", "USDT">>

ETH == <<"ETH", "USDT">>

Symbols == {BTC, ETH}

\* clock advances between events (ms)
Steps == {1001, 22500}

\* delay between the effect's Date.now() and the updater's Date.now() (ms)
Lags == {0, 1}

\* <<close, open>> prices offered by the feed: 24h change 0
ScanQuotes == {<<100, 100>>}

\* 24h change 0, -1, NaN, +Infinity
FlowQuotes == {<<100, 100>>, <<99, 100>>, <<0, 0>>, <<100, 0>>}

\* preset buttons pressed in the scanner runs
PresetButtons == {"DEFAULT", "WHALE_ACCUMULATION"}

\* slider edits offered to handleRuleChange
RuleEdits == {<<"minRvol", R(20)>>}

NoTime == 0 - 1

\* clock advances between events in the radar runs (ms): around the sampling
\* interval and around the spike retention window
RadarSteps ==
    {1, SPIKE_INTERVAL_MS - 1, SPIKE_INTERVAL_MS, SPIKE_RETENTION_MS - 1, SPIKE_RETENTION_MS}

\* cumulative quote volumes reported to the radar: from the first to the second
\* the flow over 1000 ms is exactly 10 times the 24h average, beyond it far more
RadarVolumes == {DAY_MS - 10 * 1000, DAY_MS, DAY_MS + 60 * 1000}

\* Date.now() when the clock of the model reads 0: any time more than 15000 ms
\* after the epoch
StartTime == 1000 * 1000

\* clock advances between events in the runs of the divergence detector (ms)
FuturesSteps == {THROTTLE_MS, SIGNAL_COOLDOWN_MS, SIGNAL_COOLDOWN_MS + 1}

\* <<mark price, funding rate>> offered by the futures feed: moves of 1% and of
\* 0.05% from 100, funding on both sides
FuturesQuotes ==
    {<<p, f>> : p \in {R(100), R(101), Norm(2001, 20)},
                f \in {FUNDING_THRESHOLD, Neg(FUNDING_THRESHOLD)}}

\* at most MaxMessages messages arrive between two flushes
MaxMessages == 2

\* in the runs of the ticker feed the clock advances at most MaxFeedAdvances times
MaxFeedAdvances == 2

\* clock advances between events in the runs of the ticker feed (ms)
FeedSteps == {THROTTLE_MS - 1, THROTTLE_MS}

\* clock advances around the debounce interval (ms)
DebounceSteps == {DEBOUNCE_MS, DEBOUNCE_MS + 1}

SOL == <<"SOL", "USDT">>

\* a pair quoted in another asset and a pair whose base is a denylisted stablecoin
ETHBTC == <<"ETH", "BTC">>

USDCUSDT == <<"USDC", "USDT">>

FilterSymbols == {BTC, ETHBTC, USDCUSDT}

\* symbols, rvol values and net flows of the signal maps handed to the display sort:
\* rvol 1 with no flow, and rvol 0 with a flow of 20000 either way, score the same
RankSymbols == {BTC, ETH, SOL}

RankRvols == {0, 1}

RankNetFlows == {0, 20 * 1000, 0 - 20 * 1000}

\* 24h changes (percent) of the spot tickers shown to the anomalies board, per
\* symbol: values on both sides of the 5% and 1% triggers, and NaN
BoardChanges ==
    [sym \in {BTC, ETH, ETHBTC} |->
        CASE sym = BTC -> {R(c) : c \in {0 - 6, 0 - 5, 0 - 2, 0 - 1, 1, 2, 5, 6}} \cup {NaN}
          [] sym = ETH -> {R(6), R(0 - 6), R(0)}
          [] sym = ETHBTC -> {R(6), R(0 - 6)}]

\* funding rates of the futures tickers shown to the board, in 1/10000: on both
\* sides of -0.0005, -0.0003 and 0.0003
BoardFundingRates ==
    [sym \in {BTC, ETH} |->
        CASE sym = BTC -> {Norm(f, 10 * 1000) : f \in {0 - 6, 0 - 5, 0 - 3, 0 - 2, 2, 3}}
          [] sym = ETH -> {Norm(0 - 6, 10 * 1000)}]

\* ratios of the spike entries shown to the board
BoardSpikeRatios == [sym \in {BTC} |-> {R(10), R(50), R(51)}]

\* the symbols the spot feed reports in the runs of the ticker feed
FeedSymbols == {BTC, ETHBTC}

(* ------------------------------------------------------------------ *)
(* State                                                               *)
(* ------------------------------------------------------------------ *)

VARIABLES
    data,             \* App marketData, the SpotScanner data prop: symbol -> Ticker
    analyzers,        \* symbol -> AnalyzerState
    detectedSignals,  \* symbol -> DetectedSignal
    prevDataRef,      \* symbol -> [vol, price, time]
    isPaused,
    activePreset,
    rules,            \* the active ScannerRules value
    rulesRef,         \* identity of the rules object: a preset name or "CUSTOM"
    clock,            \* Date.now()
    lastFlushAt,      \* time of the last flush of the ticker feed, NoTime if none
    advances,         \* number of clock advances so far
    lastPassAt,       \* history: loopTime of the last lifecycle pass, NoTime if none
    lastMatchAt,      \* history: symbol -> loopTime of the last pass in which it matched
    cooledAt,         \* history: symbol -> loopTime of the pass that moved its ACTIVE
                      \*   signal to COOLDOWN, NoTime once it matches again or is cleared
    requalAt,         \* history: symbol -> loopTime of the last pass in which its
                      \*   COOLDOWN signal matched again
    signalOrder,      \* the keys of detectedSignals in insertion order (Object.values order)
    sortedSignals,    \* the memoized display list
    spikes,           \* FidelioRadar spikes: symbol -> [ratio, timestamp]
    historyRef,       \* FidelioRadar historyRef.current: symbol -> [vol, time]
    futuresData,      \* App futuresData: symbol -> FuturesTicker
    anomalies,        \* FidelioRadar anomalies: the memoized list shown on the board
    emitted,          \* history: the list built by the detectors in the last
                      \*   recomputation of anomalies, before the display cap
    lastSignalTimeRef,   \* App lastSignalTimeRef.current: symbol -> time
    signals,             \* App signals, newest first
    signalTimers,        \* the setTimeout(..., 0) callbacks not yet run, each holding
                         \*   its newSignals
    lastFuturesFlushAt,  \* time of the last flush of the futures feed, NoTime if none
    pendingUpdates,      \* connectToBinance pendingUpdates: symbol -> Ticker
    throttleTimer,       \* connectToBinance throttleTimer: the timer it names by its
                         \*   due time, NoTime for null
    timers,              \* the window.setTimeout timers of connectToBinance that are
                         \*   pending, by due time, in the order they were set
    wsOpen,              \* the spot WebSocket has not been closed
    received,            \* history: the messages received since the last flush
    lastDelivered,       \* history: the argument of the last onTickerUpdate call
    deliveries           \* history: number of onTickerUpdate calls

\* the state of the SpotScanner component
scannerVars ==
    <<analyzers, detectedSignals, prevDataRef, isPaused, activePreset, rules, rulesRef,
      lastPassAt, lastMatchAt, cooledAt, requalAt, signalOrder, sortedSignals>>

\* the divergence detector of App and the feeds
appVars ==
    <<lastSignalTimeRef, signals, signalTimers, lastFuturesFlushAt,
      pendingUpdates, throttleTimer, timers, wsOpen, received, lastDelivered, deliveries>>

\* the divergence detector of App and the futures feed
futuresVars == <<lastSignalTimeRef, signals, signalTimers, lastFuturesFlushAt>>

\* connectToBinance
feedVars == <<pendingUpdates, throttleTimer, timers, wsOpen, received, lastDelivered, deliveries>>

\* FidelioRadar and the futures data it is shown
radarVars == <<spikes, historyRef, futuresData, anomalies, emitted>>

\* the state outside the SpotScanner component and the ticker feed
restOfApp ==
    <<spikes, historyRef, futuresData, anomalies, emitted,
      lastSignalTimeRef, signals, signalTimers, lastFuturesFlushAt,
      pendingUpdates, throttleTimer, timers, wsOpen, received, lastDelivered, deliveries>>

vars ==
    <<data, analyzers, detectedSignals, prevDataRef, isPaused, activePreset,
      rules, rulesRef, clock, lastFlushAt, advances, lastPassAt, lastMatchAt, cooledAt, requalAt,
      signalOrder, sortedSignals, restOfApp>>

(* ------------------------------------------------------------------ *)
(* Tick source: the mini-ticker payload parsed into a Ticker           *)
(* ------------------------------------------------------------------ *)

\* c = close, o = open, q = quote volume.  The Ticker's updatedAt (exchange
\* event time) is never read by the scanner and is left out.
MkTicker(sym, c, o, q) ==
    [symbol |-> sym,
     lastPrice |-> R(c),
     priceChangePercent |-> Mul(Div(Sub(R(c), R(o)), R(o)), R(100)),
     volume |-> R(q)]

\* the cumulative volumes the feed can report next for sym: a session start on the
\* first report, then the same total, one more trade, or (rollover) a new session
FeedVolumes(d, sym, rollover) ==
    IF sym \notin DOMAIN d THEN {SessionVolume}
    ELSE LET q == d[sym].volume.n
         IN  {q}
               \cup (IF q < SessionVolume + MaxTrades * TradeVolume THEN {q + TradeVolume} ELSE {})
               \cup (IF rollover THEN {SessionVolume} ELSE {})

TickersOf(d, sym, quotes, rollover) ==
    {MkTicker(sym, co[1], co[2], q) : co \in quotes, q \in FeedVolumes(d, sym, rollover)}

\* the cumulative volumes a feed with unparsable q fields can report next for sym:
\* parseFloat gives NaN, and the report after a NaN starts from a session total
MalformedVolumes(d, sym) ==
    IF sym \notin DOMAIN d THEN {R(SessionVolume)}
    ELSE IF IsNaN(d[sym].volume) THEN {R(SessionVolume), NaN}
    ELSE {R(q) : q \in FeedVolumes(d, sym, TRUE)} \cup {NaN}

MalformedTickersOf(d, sym, quotes) ==
    {[MkTicker(sym, co[1], co[2], 0) EXCEPT !.volume = v] :
        co \in quotes, v \in MalformedVolumes(d, sym)}

\* the batches one flush can deliver after the data d: at most one ticker per symbol,
\* keyed by its symbol
BatchesOf(d, syms, quotes, rollover) ==
    UNION {{b \in [B -> UNION {TickersOf(d, sym, quotes, rollover) : sym \in B}] :
               \A sym \in B : b[sym].symbol = sym} : B \in SUBSET syms}

Merge(old, new) ==
    [sym \in DOMAIN old \cup DOMAIN new |-> IF sym \in DOMAIN new THEN new[sym] ELSE old[sym]]

(* ------------------------------------------------------------------ *)
(* Symbol filter                                                       *)
(* ------------------------------------------------------------------ *)

EndsWithUSDT(sym) == Len(sym) > 0 /\ sym[Len(sym)] = "USDT"

\* String.replace('USDT', ''): removes the first occurrence only
RECURSIVE ReplaceUSDT(_)
ReplaceUSDT(sym) ==
    IF sym = <<>> THEN <<>>
    ELSE IF Head(sym) = "USDT" THEN Tail(sym)
    ELSE <<Head(sym)>> \o ReplaceUSDT(Tail(sym))

\* mutant: the denylist is not consulted
TrackedBySuffix(sym) == EndsWithUSDT(sym)

Tracked(sym) == EndsWithUSDT(sym) /\ ReplaceUSDT(sym) \notin IGNORED_COINS

(* ------------------------------------------------------------------ *)
(* Flow aggregation (first half of the effect)                         *)
(* ------------------------------------------------------------------ *)

CurrentAnalyzer(an, t, now) ==
    IF t.symbol \in DOMAIN an THEN an[t.symbol]
    ELSE [symbol |-> t.symbol,
          price |-> t.lastPrice,
          priceChangePercent |-> t.priceChangePercent,
          buyVolume |-> R(0),
          sellVolume |-> R(0),
          totalVolumeWindow |-> R(0),
          pressure |-> R(50),
          rvol |-> R(0),
          netFlow |-> R(0),
          updatedAt |-> now]

\* mutant: an unchanged price does not count as a buy
IsBuyOnUptick(t, prev) == Gt(Sub(t.lastPrice, prev.price), R(0))

IsBuy(t, prev) ==
    LET priceDelta == Sub(t.lastPrice, prev.price)
    IN  Gt(priceDelta, R(0)) \/ (Eq(priceDelta, R(0)) /\ Ge(t.lastPrice, prev.price))

NewBuyVol(cur, isBuy, volDelta) ==
    Add(Mul(cur.buyVolume, DECAY), IF isBuy THEN volDelta ELSE R(0))

\* mutant: the classified delta is subtracted from the decayed accumulator
NewSellVolSubtracted(cur, isBuy, volDelta) ==
    Sub(Mul(cur.sellVolume, DECAY), IF ~isBuy THEN volDelta ELSE R(0))

NewSellVol(cur, isBuy, volDelta) ==
    Add(Mul(cur.sellVolume, DECAY), IF ~isBuy THEN volDelta ELSE R(0))

\* mutant: the buy share as a fraction instead of a percentage
PressureAsFraction(newBuyVol, total) ==
    IF Gt(total, R(0)) THEN Div(newBuyVol, total) ELSE R(50)

Pressure(newBuyVol, total) ==
    IF Gt(total, R(0)) THEN Mul(Div(newBuyVol, total), R(100)) ELSE R(50)

Rvol(t, volDelta, timeDelta) ==
    LET avgRate == Div(t.volume, R(DAY_MS))
        currentRate == Div(volDelta, R(timeDelta))
    IN  IF Gt(avgRate, R(0)) THEN Div(currentRate, avgRate) ELSE R(0)

\* the entry written to updates[t.symbol]
UpdateOf(cur, t, prev, now) ==
    LET timeDelta == now - prev.time
        volDelta == Sub(t.volume, prev.vol)
        isBuy == IsBuy(t, prev)
        newBuyVol == NewBuyVol(cur, isBuy, volDelta)
        newSellVol == NewSellVol(cur, isBuy, volDelta)
        total == Add(newBuyVol, newSellVol)
    IN  [symbol |-> cur.symbol,
         price |-> t.lastPrice,
         priceChangePercent |-> t.priceChangePercent,
         buyVolume |-> newBuyVol,
         sellVolume |-> newSellVol,
         totalVolumeWindow |-> total,
         pressure |-> Pressure(newBuyVol, total),
         rvol |-> Rvol(t, volDelta, timeDelta),
         netFlow |-> Sub(newBuyVol, newSellVol),
         updatedAt |-> now]

\* timeDelta > 500
\* mutant: a tick exactly 500 ms after the baseline is processed
PastDebounceInclusive(prev, now) == now - prev.time >= DEBOUNCE_MS

PastDebounce(prev, now) == now - prev.time > DEBOUNCE_MS

\* the tickers of d that pass the symbol filter
TrackedIn(d) == {sym \in DOMAIN d : Tracked(d[sym].symbol)}

\* the symbols that get an entry in updates
UpdatedSyms(d, pd, now) ==
    {sym \in TrackedIn(d) :
        /\ sym \in DOMAIN pd
        /\ PastDebounce(pd[sym], now)
        /\ Gt(Sub(d[sym].volume, pd[sym].vol), R(0))}

\* mutant: the lifecycle runs on every cycle
HasUpdatesAlways(d, pd, now) == TRUE

HasUpdates(d, pd, now) == UpdatedSyms(d, pd, now) # {}

\* mutant: the default accumulator of a ticker seen for the first time is stored
NextAnalyzersSeeded(an, d, pd, now) ==
    [sym \in DOMAIN an \cup TrackedIn(d) |->
        IF sym \in UpdatedSyms(d, pd, now)
        THEN UpdateOf(CurrentAnalyzer(an, d[sym], now), d[sym], pd[sym], now)
        ELSE CurrentAnalyzer(an, d[sym], now)]

\* mutant: the baseline is refreshed only by a first tick or a positive delta
NextPrevDataOnDelta(d, pd, now) ==
    [sym \in DOMAIN pd \cup TrackedIn(d) |->
        IF sym \in TrackedIn(d) /\ (sym \notin DOMAIN pd \/ sym \in UpdatedSyms(d, pd, now))
        THEN [vol |-> d[sym].volume, price |-> d[sym].lastPrice, time |-> now]
        ELSE pd[sym]]

\* { ...prev, ...updates }
NextAnalyzers(an, d, pd, now) ==
    [sym \in DOMAIN an \cup UpdatedSyms(d, pd, now) |->
        IF sym \in UpdatedSyms(d, pd, now)
        THEN UpdateOf(CurrentAnalyzer(an, d[sym], now), d[sym], pd[sym], now)
        ELSE an[sym]]

\* prevDataRef.current after the forEach
NextPrevData(d, pd, now) ==
    [sym \in DOMAIN pd \cup TrackedIn(d) |->
        IF sym \in TrackedIn(d) /\ (sym \notin DOMAIN pd \/ PastDebounce(pd[sym], now))
        THEN [vol |-> d[sym].volume, price |-> d[sym].lastPrice, time |-> now]
        ELSE pd[sym]]

(* ------------------------------------------------------------------ *)
(* Rule check and signal lifecycle (second half of the effect)         *)
(* ------------------------------------------------------------------ *)

\* let isMatch = true; if (...) isMatch = false; else if ...
IsMatch(a, r) ==
    IF Lt(a.totalVolumeWindow, r.minFlowUsdt) THEN FALSE
    ELSE IF Lt(a.rvol, r.minRvol) THEN FALSE
    ELSE IF Lt(a.pressure, r.minPressure) THEN FALSE
    ELSE IF Gt(a.pressure, r.maxPressure) THEN FALSE
    ELSE IF Lt(a.priceChangePercent, r.minPriceChange) THEN FALSE
    ELSE IF Gt(a.priceChangePercent, r.maxPriceChange) THEN FALSE
    ELSE TRUE

\* { ...analysis, status, lastActiveAt, firstDetectedAt }
MkSignal(a, st, la, fd) ==
    [symbol |-> a.symbol,
     price |-> a.price,
     priceChangePercent |-> a.priceChangePercent,
     buyVolume |-> a.buyVolume,
     sellVolume |-> a.sellVolume,
     totalVolumeWindow |-> a.totalVolumeWindow,
     pressure |-> a.pressure,
     rvol |-> a.rvol,
     netFlow |-> a.netFlow,
     updatedAt |-> a.updatedAt,
     status |-> st,
     lastActiveAt |-> la,
     firstDetectedAt |-> fd]

\* mutant: a continuing signal gets a new firstDetectedAt
ActiveSignalFresh(a, sigs, loopTime) == MkSignal(a, "ACTIVE", loopTime, loopTime)

\* mutant: a new signal is stamped with the analysis time instead of the pass time
ActiveSignalStamped(a, sigs, loopTime) ==
    MkSignal(a, "ACTIVE", loopTime,
             IF a.symbol \in DOMAIN sigs THEN sigs[a.symbol].firstDetectedAt ELSE a.updatedAt)

\* mutant: the two timestamps of a continuing signal are exchanged
ActiveSignalSwapped(a, sigs, loopTime) ==
    IF a.symbol \in DOMAIN sigs
    THEN MkSignal(a, "ACTIVE", sigs[a.symbol].firstDetectedAt, loopTime)
    ELSE MkSignal(a, "ACTIVE", loopTime, loopTime)

\* isMatch branch: NEW or CONTINUING signal
ActiveSignal(a, sigs, loopTime) ==
    MkSignal(a, "ACTIVE", loopTime,
             IF a.symbol \in DOMAIN sigs THEN sigs[a.symbol].firstDetectedAt ELSE loopTime)

\* mutant: a COOLDOWN signal keeps the metrics it had
CooldownSignalFrozen(a, existing, loopTime) ==
    MkSignal(existing, "COOLDOWN", existing.lastActiveAt, existing.firstDetectedAt)

\* mutant: the retention timer is refreshed on every COOLDOWN update
CooldownSignalRefreshed(a, existing, loopTime) ==
    MkSignal(a, "COOLDOWN", loopTime, existing.firstDetectedAt)

\* no match, existing, still inside the retention window
CooldownSignal(a, existing, loopTime) ==
    MkSignal(a, "COOLDOWN", existing.lastActiveAt, existing.firstDetectedAt)

\* mutant: the boundary value is retained
RetainedInclusive(existing, loopTime) == loopTime - existing.lastActiveAt <= RETENTION_MS

\* loopTime - existing.lastActiveAt < RETENTION_MS
Retained(existing, loopTime) == loopTime - existing.lastActiveAt < RETENTION_MS

MatchedSyms(an, r) == {sym \in DOMAIN an : IsMatch(an[sym], r)}

ExpiredSyms(an, sigs, r, loopTime) ==
    {sym \in (DOMAIN an \cap DOMAIN sigs) \ MatchedSyms(an, r) : ~Retained(sigs[sym], loopTime)}

\* mutant: the pass looks only at the FlowStates updated in its cycle
NextSignalsOfUpdated(an, sigs, r, loopTime) ==
    LET updated == {sym \in DOMAIN an : loopTime - an[sym].updatedAt <= 1}
        matched == MatchedSyms(an, r) \cap updated
        expired == ExpiredSyms(an, sigs, r, loopTime) \cap updated
    IN  [sym \in matched \cup (DOMAIN sigs \ expired) |->
            IF sym \in matched THEN ActiveSignal(an[sym], sigs, loopTime)
            ELSE IF sym \in updated THEN CooldownSignal(an[sym], sigs[sym], loopTime)
            ELSE sigs[sym]]

\* the value returned by the setDetectedSignals updater
NextSignals(an, sigs, r, loopTime) ==
    [sym \in MatchedSyms(an, r) \cup (DOMAIN sigs \ ExpiredSyms(an, sigs, r, loopTime)) |->
        IF sym \in MatchedSyms(an, r) THEN ActiveSignal(an[sym], sigs, loopTime)
        ELSE IF sym \in DOMAIN an THEN CooldownSignal(an[sym], sigs[sym], loopTime)
        ELSE sigs[sym]]

\* the sequences that list every element of S once
Orderings(S) ==
    {seq \in [1..Cardinality(S) -> S] : \A i, j \in 1..Cardinality(S) : i # j => seq[i] # seq[j]}

\* key order of the object returned by the updater: { ...prev } keeps the order of the
\* keys that stay, delete drops a key, and keys assigned for the first time are
\* appended in the iteration order of nextAnalyzers, which follows the order in
\* which the feed first reported the symbols: any order
NextOrders(order, sigs, next) ==
    {SelectSeq(order, LAMBDA sym : sym \in DOMAIN next) \o added :
        added \in Orderings(DOMAIN next \ DOMAIN sigs)}

(* ------------------------------------------------------------------ *)
(* Display sorting                                                     *)
(* ------------------------------------------------------------------ *)

\* Object.values(detectedSignals)
ObjectValues(sigs, order) == [i \in 1..Len(order) |-> sigs[order[i]]]

\* (a.rvol * 2)
RvolTerm(s) == Mul(s.rvol, R(2))

\* (Math.abs(a.netFlow) / 10000)
FlowTerm(s) == Div(AbsR(s.netFlow), R(10000))

\* (a.rvol * 2) + (Math.abs(a.netFlow) / 10000)
Score(s) == Add(RvolTerm(s), FlowTerm(s))

\* scoreB - scoreA, of which the sort reads the sign only
ScoreDiff(b, a) == SumDiffSign(RvolTerm(b), FlowTerm(b), RvolTerm(a), FlowTerm(a))

\* mutant: the status priority is skipped
CompareByScore(a, b) == ScoreDiff(b, a)

\* the comparator: negative sorts a first, positive sorts b first
Compare(a, b) ==
    IF a.status = "ACTIVE" /\ b.status = "COOLDOWN" THEN R(0 - 1)
    ELSE IF a.status = "COOLDOWN" /\ b.status = "ACTIVE" THEN R(1)
    ELSE ScoreDiff(b, a)

\* x placed into a sorted list behind every element the comparator does not put
\* after it (a NaN result counts as 0)
RECURSIVE Insert(_, _)
Insert(x, sorted) ==
    IF sorted = <<>> THEN <<x>>
    ELSE IF Gt(Compare(Head(sorted), x), R(0)) THEN <<x>> \o sorted
    ELSE <<Head(sorted)>> \o Insert(x, Tail(sorted))

\* Array.prototype.sort with a comparator: a stable sort
RECURSIVE ArraySort(_)
ArraySort(list) ==
    IF list = <<>> THEN <<>>
    ELSE Insert(list[Len(list)], ArraySort(SubSeq(list, 1, Len(list) - 1)))

\* useMemo(() => Object.values(detectedSignals).sort(...), [detectedSignals])
SortedSignals(sigs, order) == ArraySort(ObjectValues(sigs, order))

(* ------------------------------------------------------------------ *)
(* The effect                                                          *)
(* ------------------------------------------------------------------ *)

\* history of the pass that ran at loopTime over the analyzers an
RecordPass(an, r, loopTime) ==
    \E matched \in {MatchedSyms(an, r)} :
    /\ lastPassAt' = loopTime
    /\ lastMatchAt' = [sym \in Symbols |->
                         IF sym \in matched THEN loopTime ELSE lastMatchAt[sym]]
    /\ cooledAt' = [sym \in Symbols |->
                      IF sym \in matched THEN NoTime
                      ELSE IF /\ sym \in DOMAIN an
                              /\ sym \in DOMAIN detectedSignals
                              /\ detectedSignals[sym].status = "ACTIVE"
                              /\ loopTime - detectedSignals[sym].lastActiveAt < RETENTION_MS
                           THEN loopTime
                      ELSE cooledAt[sym]]
    /\ requalAt' = [sym \in Symbols |->
                      IF /\ sym \in matched
                         /\ sym \in DOMAIN detectedSignals
                         /\ detectedSignals[sym].status = "COOLDOWN"
                      THEN loopTime
                      ELSE requalAt[sym]]

\* mutant: the effect runs while paused
FrozenNever(paused) == FALSE

\* if (isPaused) return;
Frozen(paused) == paused

\* useEffect(() => {...}, [data, isPaused, rules]) run with the props/state d, r, paused
Effect(d, r, paused) ==
    IF Frozen(paused)
    THEN UNCHANGED <<analyzers, detectedSignals, signalOrder, sortedSignals, prevDataRef, clock,
                     lastPassAt, lastMatchAt, cooledAt, requalAt>>
    ELSE LET now == clock
         IN  /\ prevDataRef' = NextPrevData(d, prevDataRef, now)
             /\ IF HasUpdates(d, prevDataRef, now)
                THEN \E lag \in Lags,
                        nextAnalyzers \in {NextAnalyzers(analyzers, d, prevDataRef, now)} :
                       LET loopTime == now + lag
                       IN  \E next \in {NextSignals(nextAnalyzers, detectedSignals, r, loopTime)} :
                           \E order \in NextOrders(signalOrder, detectedSignals, next) :
                           /\ analyzers' = nextAnalyzers
                           /\ detectedSignals' = next
                           /\ signalOrder' = order
                           /\ sortedSignals' = SortedSignals(next, order)
                           /\ clock' = loopTime
                           /\ RecordPass(nextAnalyzers, r, loopTime)
                ELSE UNCHANGED <<analyzers, detectedSignals, signalOrder, sortedSignals, clock,
                                 lastPassAt, lastMatchAt, cooledAt, requalAt>>

(* ------------------------------------------------------------------ *)
(* FidelioRadar: volume spike detection                                *)
(* ------------------------------------------------------------------ *)

\* the tickers a flush can deliver to the radar for sym
RadarTickersOf(sym, quotes) ==
    {MkTicker(sym, co[1], co[2], q) : co \in quotes, q \in RadarVolumes}

\* if (!t.symbol.endsWith('USDT')) return;
RadarTracked(d) == {sym \in DOMAIN d : EndsWithUSDT(d[sym].symbol)}

\* mutant: the baseline is sampled after more than one second
SampledStrictly(prev, now) == now - prev.time > SPIKE_INTERVAL_MS

\* if (timeDelta >= 1000)
Sampled(prev, now) == now - prev.time >= SPIKE_INTERVAL_MS

\* currentFlowRate / avgFlowRate
SpikeRatio(t, prev, now) ==
    Div(Div(Sub(t.volume, prev.vol), R(now - prev.time)), Div(t.volume, R(DAY_MS)))

\* the symbols that get an entry in newSpikes
SpikingSyms(d, h, now) ==
    {sym \in RadarTracked(d) :
        /\ sym \in DOMAIN h
        /\ Sampled(h[sym], now)
        /\ Gt(Sub(d[sym].volume, h[sym].vol), R(0))
        /\ Gt(Div(d[sym].volume, R(DAY_MS)), R(0))
        /\ Ge(SpikeRatio(d[sym], h[sym], now), R(SPIKE_RATIO))}

NewSpikes(d, h, now) ==
    [sym \in SpikingSyms(d, h, now) |->
        [ratio |-> SpikeRatio(d[sym], h[sym], now), timestamp |-> now]]

\* historyRef.current after the forEach
NextHistory(d, h, now) ==
    [sym \in DOMAIN h \cup RadarTracked(d) |->
        IF sym \in RadarTracked(d) /\ (sym \notin DOMAIN h \/ Sampled(h[sym], now))
        THEN [vol |-> d[sym].volume, time |-> now]
        ELSE h[sym]]

\* mutant: an entry is kept only while its spike condition holds
FilteredToNew(merged, fresh, now) ==
    [sym \in {k \in DOMAIN merged : k \in DOMAIN fresh} |-> merged[sym]]

\* if (now - val.timestamp < RETENTION_MS) filtered[key] = val
Filtered(merged, fresh, now) ==
    [sym \in {k \in DOMAIN merged : now - merged[k].timestamp < SPIKE_RETENTION_MS} |->
        merged[sym]]

\* the spikes state after the effect
NextSpikes(sp, fresh, now) ==
    IF DOMAIN fresh # {} \/ DOMAIN sp # {}
    THEN Filtered(Merge(sp, fresh), fresh, now)
    ELSE sp

(* ------------------------------------------------------------------ *)
(* FidelioRadar: the anomalies board                                   *)
(* ------------------------------------------------------------------ *)

PUMP_PCT == 5

NEG_FUNDING_RATE == Norm(0 - 5, 10 * 1000)

DIV_FUNDING_RATE == Norm(3, 10 * 1000)

DIV_PRICE_PCT == 1

HIGH_SPIKE_RATIO == 50

BOARD_SIZE == 4

Anomaly(prefix, sym, type, value, message, severity) ==
    [id |-> prefix \o sym, symbol |-> sym, type |-> type, value |-> value,
     message |-> message, severity |-> severity]

\* the events pushed for one spot ticker
SpotEvents(t) ==
    IF ~EndsWithUSDT(t.symbol) THEN <<>>
    ELSE (IF Gt(t.priceChangePercent, R(PUMP_PCT))
          THEN <<Anomaly(<<"pump">>, t.symbol, "PUMP", t.priceChangePercent,
                         "Rapid Price Surge", "MEDIUM")>>
          ELSE <<>>)
         \o
         (IF Lt(t.priceChangePercent, R(0 - PUMP_PCT))
          THEN <<Anomaly(<<"dump">>, t.symbol, "DUMP", t.priceChangePercent,
                         "Sharp Decline", "MEDIUM")>>
          ELSE <<>>)

\* mutant: the bullish divergence needs a funding rate strictly below the threshold
BullishDivergenceStrict(f, spot) ==
    Lt(f.fundingRate, Neg(DIV_FUNDING_RATE)) /\ Gt(spot.priceChangePercent, R(DIV_PRICE_PCT))

\* f.fundingRate <= -0.0003 && spot.priceChangePercent > 1.0
BullishDivergence(f, spot) ==
    Le(f.fundingRate, Neg(DIV_FUNDING_RATE)) /\ Gt(spot.priceChangePercent, R(DIV_PRICE_PCT))

\* f.fundingRate >= 0.0003 && spot.priceChangePercent < -1.0
BearishDivergence(f, spot) ==
    Ge(f.fundingRate, DIV_FUNDING_RATE) /\ Lt(spot.priceChangePercent, R(0 - DIV_PRICE_PCT))

\* the events pushed for one futures ticker, d being spotData
FuturesEvents(f, d) ==
    LET fundingPct == Mul(f.fundingRate, R(100))
    IN  (IF Lt(f.fundingRate, NEG_FUNDING_RATE)
         THEN <<Anomaly(<<"neg-fund">>, f.symbol, "NEG_FUNDING", fundingPct,
                        "Extreme Neg. Funding", "MEDIUM")>>
         ELSE <<>>)
        \o
        (IF f.symbol \in DOMAIN d /\ BullishDivergence(f, d[f.symbol])
         THEN <<Anomaly(<<"div-bull">>, f.symbol, "DIV_BULL", fundingPct,
                        "SHORT SQUEEZE SETUP", "HIGH")>>
         ELSE <<>>)
        \o
        (IF f.symbol \in DOMAIN d /\ BearishDivergence(f, d[f.symbol])
         THEN <<Anomaly(<<"div-bear">>, f.symbol, "DIV_BEAR", fundingPct,
                        "LONG TRAP SETUP", "HIGH")>>
         ELSE <<>>)

\* the event pushed for one entry of spikes
SpikeEvents(sym, entry) ==
    <<[Anomaly(<<"vol">>, sym, "VOLUME_SPIKE", entry.ratio, "Volume Explosion",
               IF Gt(entry.ratio, R(HIGH_SPIKE_RATIO)) THEN "HIGH" ELSE "MEDIUM")
         EXCEPT !.id = <<"vol">> \o sym \o <<entry.timestamp>>]>>

RECURSIVE Flatten(_)
Flatten(lists) ==
    IF lists = <<>> THEN <<>> ELSE Head(lists) \o Flatten(Tail(lists))

\* list before the sort, the three maps being walked in the key orders od, of, os
AnomalyList(d, f, sp, od, of, os) ==
    Flatten([i \in 1..Len(od) |-> SpotEvents(d[od[i]])])
      \o Flatten([i \in 1..Len(of) |-> FuturesEvents(f[of[i]], d)])
      \o Flatten([i \in 1..Len(os) |-> SpikeEvents(os[i], sp[os[i]])])

\* list.sort(...): HIGH before the rest, the sort being stable
SortBySeverity(list) ==
    SelectSeq(list, LAMBDA e : e.severity = "HIGH")
      \o SelectSeq(list, LAMBDA e : e.severity # "HIGH")

\* .slice(0, 4)
Slice(list, n) == SubSeq(list, 1, IF Len(list) < n THEN Len(list) ELSE n)

\* the render that recomputes the memoized anomalies from d, f and sp
Board(d, f, sp) ==
    \E od \in Orderings(DOMAIN d), of \in Orderings(DOMAIN f), os \in Orderings(DOMAIN sp) :
       \E list \in {AnomalyList(d, f, sp, od, of, os)} :
          /\ emitted' = list
          /\ anomalies' = Slice(SortBySeverity(list), BOARD_SIZE)

\* useEffect(() => {...}, [spotData]) run with the prop d, and the render after it
RadarEffect(d) ==
    /\ historyRef' = NextHistory(d, historyRef, clock)
    /\ \E sp \in {NextSpikes(spikes, NewSpikes(d, historyRef, clock), clock)} :
          /\ spikes' = sp
          /\ Board(d, futuresData, sp)

(* ------------------------------------------------------------------ *)
(* App: the inline funding / price divergence detector                 *)
(* ------------------------------------------------------------------ *)

\* Date.now()
DateNow == StartTime + clock

\* the mark-price payload parsed into a Partial<FuturesTicker>; indexPrice and
\* nextFundingTime are not read by the detector and are left out
FuturesUpdateOf(sym, quote) ==
    [symbol |-> sym, markPrice |-> quote[1], fundingRate |-> quote[2]]

\* the batches one flush of the futures feed can deliver
FuturesBatches(syms) ==
    UNION {{b \in [B -> {FuturesUpdateOf(sym, q) : sym \in B, q \in FuturesQuotes}] :
               \A sym \in B : b[sym].symbol = sym} : B \in SUBSET syms \ {{}}}

\* lastSignalTimeRef.current[symbol] || 0
LastTime(ref, sym) == IF sym \in DOMAIN ref /\ ref[sym] # 0 THEN ref[sym] ELSE 0

\* mutant: a signal is allowed 15000 ms after the previous one
CooledDownInclusive(ref, sym, now) == now - LastTime(ref, sym) >= SIGNAL_COOLDOWN_MS

\* if (now - lastTime > 15000)
CooledDown(ref, sym, now) == now - LastTime(ref, sym) > SIGNAL_COOLDOWN_MS

DivergenceSignal(sym, side, update, now, note) ==
    [id |-> <<"auto", now>> \o sym, strategy |-> "SmartMoney_Divergence",
     symbol |-> sym, side |-> side, price |-> update.markPrice, note |-> note]

\* the signals pushed to newSignals for one update, current being prev[symbol]
DivergenceSignals(current, update, ref, now) ==
    LET priceChange == Sub(update.markPrice, current.markPrice)
        fundingChange == Sub(update.fundingRate, current.fundingRate)
    IN  IF ~CooledDown(ref, update.symbol, now) THEN <<>>
        ELSE (IF /\ Lt(fundingChange, R(0))
                 /\ Gt(priceChange, R(0))
                 /\ Le(update.fundingRate, Neg(FUNDING_THRESHOLD))
                 /\ Gt(Div(priceChange, current.markPrice), MOVE_THRESHOLD)
              THEN <<DivergenceSignal(update.symbol, "LONG", update, now,
                                      "Funding Short Squeeze Alert")>>
              ELSE <<>>)
             \o
             (IF /\ Gt(fundingChange, R(0))
                 /\ Lt(priceChange, R(0))
                 /\ Ge(update.fundingRate, FUNDING_THRESHOLD)
                 /\ Lt(Div(priceChange, current.markPrice), Neg(MOVE_THRESHOLD))
              THEN <<DivergenceSignal(update.symbol, "SHORT", update, now,
                                      "Funding Long Trap Alert")>>
              ELSE <<>>)

\* newSignals after the forEach over the updates walked in the key order ou
NewSignals(prev, updates, ref, now, ou) ==
    Flatten([i \in 1..Len(ou) |->
               IF ou[i] \in DOMAIN prev
               THEN DivergenceSignals(prev[ou[i]], updates[ou[i]], ref, now)
               ELSE <<>>])

\* lastSignalTimeRef.current after the forEach
NextSignalTimes(ref, newSignals, now) ==
    LET emitting == {newSignals[i].symbol : i \in 1..Len(newSignals)}
    IN  [sym \in DOMAIN ref \cup emitting |-> IF sym \in emitting THEN now ELSE ref[sym]]

(* ------------------------------------------------------------------ *)
(* Operations                                                          *)
(* ------------------------------------------------------------------ *)

Empty == [sym \in {} |-> 0]

\* the state of App and of the feeds after construction
InitApp ==
    /\ lastSignalTimeRef = Empty
    /\ signals = <<>>
    /\ signalTimers = <<>>
    /\ lastFuturesFlushAt = NoTime
    /\ pendingUpdates = Empty
    /\ throttleTimer = NoTime
    /\ timers = <<>>
    /\ wsOpen = TRUE
    /\ received = <<>>
    /\ lastDelivered = Empty
    /\ deliveries = 0

\* the state outside the scanner after construction
InitRest ==
    /\ spikes = Empty
    /\ historyRef = Empty
    /\ futuresData = Empty
    /\ anomalies = <<>>
    /\ emitted = <<>>
    /\ InitApp

Init ==
    /\ data = Empty
    /\ analyzers = Empty
    /\ detectedSignals = Empty
    /\ prevDataRef = Empty
    /\ isPaused = FALSE
    /\ activePreset = "DEFAULT"
    /\ rules = PRESETS["DEFAULT"]
    /\ rulesRef = "DEFAULT"
    /\ clock = 0
    /\ lastFlushAt = NoTime
    /\ advances = 0
    /\ lastPassAt = NoTime
    /\ lastMatchAt = [sym \in Symbols |-> NoTime]
    /\ cooledAt = [sym \in Symbols |-> NoTime]
    /\ requalAt = [sym \in Symbols |-> NoTime]
    /\ signalOrder = <<>>
    /\ sortedSignals = <<>>
    /\ InitRest

\* time passes between events
Advance(dt) ==
    /\ advances < MaxAdvances
    /\ advances' = advances + 1
    /\ clock' = clock + dt
    /\ UNCHANGED restOfApp
    /\ UNCHANGED <<data, analyzers, detectedSignals, signalOrder, sortedSignals,
                   prevDataRef, isPaused, activePreset,
                   rules, rulesRef, lastFlushAt, lastPassAt, lastMatchAt, cooledAt, requalAt>>

\* a flushed batch reaches App (setMarketData merge) and the scanner's effect runs
TickerUpdate(b) ==
    /\ lastFlushAt = NoTime \/ clock - lastFlushAt >= THROTTLE_MS
    /\ lastFlushAt' = clock
    /\ data' = Merge(data, b)
    /\ Effect(data', rules, isPaused)
    /\ UNCHANGED restOfApp
    /\ UNCHANGED <<isPaused, activePreset, rules, rulesRef, advances>>

\* FREEZE / RESUME button
TogglePause ==
    /\ isPaused' = ~isPaused
    /\ Effect(data, rules, isPaused')
    /\ UNCHANGED restOfApp
    /\ UNCHANGED <<data, activePreset, rules, rulesRef, lastFlushAt, advances>>

\* mutant: switching strategies clears the existing signals
ApplyPresetClearing(name) ==
    /\ activePreset' = name
    /\ rules' = PRESETS[name]
    /\ rulesRef' = name
    /\ detectedSignals' = Empty
    /\ signalOrder' = <<>>
    /\ sortedSignals' = <<>>
    /\ UNCHANGED restOfApp
    /\ UNCHANGED <<data, analyzers, prevDataRef, isPaused, clock, lastFlushAt, advances,
                   lastPassAt, lastMatchAt, cooledAt, requalAt>>

ApplyPreset(name) ==
    /\ activePreset' = name
    /\ rules' = PRESETS[name]
    /\ rulesRef' = name
    /\ IF rulesRef # name
       THEN Effect(data, rules', isPaused)
       ELSE UNCHANGED <<analyzers, detectedSignals, signalOrder, sortedSignals, prevDataRef, clock,
                        lastPassAt, lastMatchAt, cooledAt, requalAt>>
    /\ UNCHANGED restOfApp
    /\ UNCHANGED <<data, isPaused, lastFlushAt, advances>>

HandleRuleChange(field, value) ==
    /\ rules' = [rules EXCEPT ![field] = value]
    /\ rulesRef' = "CUSTOM"
    /\ activePreset' = "DEFAULT"
    /\ Effect(data, rules', isPaused)
    /\ UNCHANGED restOfApp
    /\ UNCHANGED <<data, isPaused, lastFlushAt, advances>>

\* mutant: clearing also drops the FlowStates
ClearSignalsAndFlow ==
    /\ detectedSignals' = Empty
    /\ signalOrder' = <<>>
    /\ sortedSignals' = <<>>
    /\ analyzers' = Empty
    /\ cooledAt' = [sym \in Symbols |-> NoTime]
    /\ UNCHANGED restOfApp
    /\ UNCHANGED <<data, prevDataRef, isPaused, activePreset, rules, rulesRef,
                   clock, lastFlushAt, advances, lastPassAt, lastMatchAt, requalAt>>

ClearSignals ==
    /\ detectedSignals' = Empty
    /\ signalOrder' = <<>>
    /\ sortedSignals' = <<>>
    /\ cooledAt' = [sym \in Symbols |-> NoTime]
    /\ UNCHANGED restOfApp
    /\ UNCHANGED <<data, analyzers, prevDataRef, isPaused, activePreset, rules, rulesRef,
                   clock, lastFlushAt, advances, lastPassAt, lastMatchAt, requalAt>>

\* a flushed batch reaches App while the dashboard shows the radar
RadarUpdate(b) ==
    /\ lastFlushAt = NoTime \/ clock - lastFlushAt >= THROTTLE_MS
    /\ lastFlushAt' = clock
    /\ data' = Merge(data, b)
    /\ RadarEffect(data')
    /\ UNCHANGED <<scannerVars, appVars, futuresData, clock, advances>>

\* the dashboard is left and shown again: the radar is mounted afresh and its
\* effect runs on the market data App holds
RadarMount ==
    /\ historyRef' = NextHistory(data, Empty, clock)
    /\ spikes' = Empty
    /\ Board(data, futuresData, Empty)
    /\ UNCHANGED <<scannerVars, appVars, data, futuresData, clock, lastFlushAt, advances>>

\* a flushed batch of the futures feed reaches App: the setFuturesData updater
FuturesUpdate(updates) ==
    /\ lastFuturesFlushAt = NoTime \/ clock - lastFuturesFlushAt >= THROTTLE_MS
    /\ lastFuturesFlushAt' = clock
    /\ \E ou \in Orderings(DOMAIN updates) :
          \E newSignals \in {NewSignals(futuresData, updates, lastSignalTimeRef, DateNow, ou)} :
             /\ lastSignalTimeRef' = NextSignalTimes(lastSignalTimeRef, newSignals, DateNow)
             /\ signalTimers' = IF Len(newSignals) > 0
                                THEN Append(signalTimers, newSignals)
                                ELSE signalTimers
    /\ futuresData' = Merge(futuresData, updates)
    /\ UNCHANGED <<scannerVars, feedVars, data, clock, lastFlushAt, advances,
                   spikes, historyRef, anomalies, emitted, signals>>

\* the setTimeout(..., 0) callback of the oldest pending batch of new signals
SignalTimer ==
    /\ signalTimers # <<>>
    /\ signals' = Slice(Head(signalTimers) \o signals, SIGNALS_KEPT)
    /\ signalTimers' = Tail(signalTimers)
    /\ UNCHANGED <<scannerVars, feedVars, radarVars, data, clock, lastFlushAt, advances,
                   lastSignalTimeRef, lastFuturesFlushAt>>

\* mutant: a timer is set by every message
TimerIdleAlways(timer) == TRUE

\* if (!throttleTimer)
TimerIdle(timer) == timer = NoTime

\* the list without its i-th element
Without(list, i) == SubSeq(list, 1, i - 1) \o SubSeq(list, i + 1, Len(list))

\* clearTimeout(timer)
ClearTimeout(list, timer) ==
    IF \E i \in 1..Len(list) : list[i] = timer
    THEN Without(list, CHOOSE i \in 1..Len(list) : list[i] = timer)
    ELSE list

\* ws.onmessage with the payload parsed into the tickers b
WsMessage(b) ==
    /\ wsOpen
    /\ Len(received) < MaxMessages
    /\ received' = Append(received, b)
    /\ pendingUpdates' = Merge(pendingUpdates, b)
    /\ IF TimerIdle(throttleTimer)
       THEN /\ throttleTimer' = clock + THROTTLE_MS
            /\ timers' = Append(timers, clock + THROTTLE_MS)
       ELSE UNCHANGED <<throttleTimer, timers>>
    /\ UNCHANGED <<scannerVars, radarVars, futuresVars, data, clock, lastFlushAt, advances,
                   wsOpen, lastDelivered, deliveries>>

\* the throttle timer fires: onTickerUpdate({ ...pendingUpdates }) reaches App
\* (setMarketData merge) and the scanner's effect runs
Flush ==
    \E i \in 1..Len(timers) :
       /\ clock >= timers[i]
       /\ timers' = Without(timers, i)
       /\ lastDelivered' = pendingUpdates
       /\ deliveries' = deliveries + 1
       /\ lastFlushAt' = clock
       /\ data' = Merge(data, pendingUpdates)
       /\ Effect(data', rules, isPaused)
       /\ pendingUpdates' = Empty
       /\ throttleTimer' = NoTime
       /\ received' = <<>>
       /\ UNCHANGED <<isPaused, activePreset, rules, rulesRef, advances,
                      radarVars, futuresVars, wsOpen>>

\* the function returned by connectToBinance
Disconnect ==
    /\ wsOpen
    /\ wsOpen' = FALSE
    /\ timers' = IF throttleTimer # NoTime THEN ClearTimeout(timers, throttleTimer) ELSE timers
    /\ UNCHANGED <<scannerVars, radarVars, futuresVars, data, clock, lastFlushAt, advances,
                   pendingUpdates, throttleTimer, received, lastDelivered, deliveries>>

\* the scanner on one symbol with every operation
Next ==
    \/ \E dt \in Steps : Advance(dt)
    \/ \E b \in BatchesOf(data, {BTC}, ScanQuotes, FALSE) : TickerUpdate(b)
    \/ TogglePause
    \/ \E name \in PresetButtons : ApplyPreset(name)
    \/ \E e \in RuleEdits : HandleRuleChange(e[1], e[2])
    \/ ClearSignals

Spec == Init /\ [][Next]_vars

\* the flow aggregation on one symbol under varied prices and session rollovers
NextFlow ==
    \/ \E dt \in Steps : Advance(dt)
    \/ \E b \in BatchesOf(data, {BTC}, FlowQuotes, TRUE) : TickerUpdate(b)

SpecFlow == Init /\ [][NextFlow]_vars

\* the scanner on two symbols, with the list cleared at any time
NextClear ==
    \/ \E dt \in Steps : advances < MaxClearAdvances /\ Advance(dt)
    \/ \E b \in BatchesOf(data, Symbols, ScanQuotes, FALSE) : TickerUpdate(b)
    \/ ClearSignals

SpecClear == Init /\ [][NextClear]_vars

\* the scanner on one symbol, frozen and resumed at instants around the debounce interval
NextDebounce ==
    \/ \E dt \in DebounceSteps : Advance(dt)
    \/ \E b \in BatchesOf(data, {BTC}, ScanQuotes, FALSE) : TickerUpdate(b)
    \/ TogglePause

SpecDebounce == Init /\ [][NextDebounce]_vars

\* the flow aggregation on one symbol fed with rollovers and unparsable volumes
NextMalformed ==
    \/ \E dt \in Steps : Advance(dt)
    \/ \E t \in MalformedTickersOf(data, BTC, ScanQuotes) :
          TickerUpdate([sym \in {BTC} |-> t])

SpecMalformed == Init /\ [][NextMalformed]_vars

\* the radar on one symbol
NextRadar ==
    \/ \E dt \in RadarSteps : Advance(dt)
    \/ \E t \in RadarTickersOf(BTC, ScanQuotes) : RadarUpdate([sym \in {BTC} |-> t])
    \/ RadarMount

SpecRadar == Init /\ [][NextRadar]_vars

\* the maps that give every symbol of a subset of DOMAIN choices one of its choices
MapsOver(choices) ==
    UNION {{m \in [B -> UNION {choices[sym] : sym \in B}] :
               \A sym \in B : m[sym] \in choices[sym]} :
           B \in SUBSET DOMAIN choices}

BoardTicker(sym, change) ==
    [symbol |-> sym, lastPrice |-> R(100), priceChangePercent |-> change,
     volume |-> R(SessionVolume)]

BoardFuturesTicker(sym, rate) ==
    [symbol |-> sym, markPrice |-> R(100), fundingRate |-> rate]

BoardSpike(sym, ratio) == [ratio |-> ratio, timestamp |-> 0]

InitAnomaly ==
    /\ data \in {[sym \in DOMAIN m |-> BoardTicker(sym, m[sym])] : m \in MapsOver(BoardChanges)}
    /\ futuresData \in {[sym \in DOMAIN m |-> BoardFuturesTicker(sym, m[sym])] :
                          m \in MapsOver(BoardFundingRates)}
    /\ spikes \in {[sym \in DOMAIN m |-> BoardSpike(sym, m[sym])] : m \in MapsOver(BoardSpikeRatios)}
    /\ historyRef = Empty
    /\ anomalies = <<>>
    /\ emitted = <<>>
    /\ InitApp
    /\ analyzers = Empty
    /\ detectedSignals = Empty
    /\ signalOrder = <<>>
    /\ sortedSignals = <<>>
    /\ prevDataRef = Empty
    /\ isPaused = FALSE
    /\ activePreset = "DEFAULT"
    /\ rules = PRESETS["DEFAULT"]
    /\ rulesRef = "DEFAULT"
    /\ clock = 0
    /\ lastFlushAt = NoTime
    /\ advances = 0
    /\ lastPassAt = NoTime
    /\ lastMatchAt = [sym \in Symbols |-> NoTime]
    /\ cooledAt = [sym \in Symbols |-> NoTime]
    /\ requalAt = [sym \in Symbols |-> NoTime]

\* the render that recomputes the memoized anomalies
Detect ==
    /\ Board(data, futuresData, spikes)
    /\ UNCHANGED <<scannerVars, appVars, data, futuresData, spikes, historyRef,
                   clock, lastFlushAt, advances>>

\* the anomalies board on snapshots of up to three spot symbols
NextAnomaly == Detect

SpecAnomaly == InitAnomaly /\ [][NextAnomaly]_vars

\* the divergence detector on one futures symbol
NextFutures ==
    \/ \E dt \in FuturesSteps : Advance(dt)
    \/ \E u \in FuturesBatches({BTC}) : FuturesUpdate(u)
    \/ SignalTimer

SpecFutures == Init /\ [][NextFutures]_vars

\* the ticker feed with its throttle, delivering to the scanner
NextFeed ==
    \/ \E dt \in FeedSteps : advances < MaxFeedAdvances /\ Advance(dt)
    \/ \E sym \in FeedSymbols :
          \E t \in TickersOf(Merge(data, pendingUpdates), sym, ScanQuotes, FALSE) :
             WsMessage([k \in {sym} |-> t])
    \/ Flush
    \/ Disconnect

SpecFeed == Init /\ [][NextFeed]_vars

\* the scanner fed with a tracked symbol and two symbols the filter excludes
NextFilter ==
    \/ \E dt \in Steps : Advance(dt)
    \/ \E syms \in {{BTC, sym} : sym \in FilterSymbols} :
          \E b \in BatchesOf(data, syms, ScanQuotes, FALSE) : TickerUpdate(b)

SpecFilter == Init /\ [][NextFilter]_vars

\* a signal of sym with the given rvol and net flow, its other metrics following
\* from an accumulator that holds the flow on one side
RankSignal(sym, rv, nf, st) ==
    LET buy == IF nf > 0 THEN R(nf) ELSE R(0)
        sell == IF nf < 0 THEN R(0 - nf) ELSE R(0)
    IN  MkSignal([symbol |-> sym,
                  price |-> R(100),
                  priceChangePercent |-> R(0),
                  buyVolume |-> buy,
                  sellVolume |-> sell,
                  totalVolumeWindow |-> Add(buy, sell),
                  pressure |-> Pressure(buy, Add(buy, sell)),
                  rvol |-> R(rv),
                  netFlow |-> Sub(buy, sell),
                  updatedAt |-> 0],
                 st, 0, 0)

RankSignalsOf(sym) ==
    {RankSignal(sym, rv, nf, st) :
        rv \in RankRvols, nf \in RankNetFlows, st \in {"ACTIVE", "COOLDOWN"}}

\* the signal maps handed to the display sort
RankInputs ==
    UNION {{m \in [B -> UNION {RankSignalsOf(sym) : sym \in B}] :
               \A sym \in B : m[sym].symbol = sym} : B \in SUBSET RankSymbols}

\* a signal map has been set and the list is not rendered yet
InitRank ==
    /\ data = Empty
    /\ analyzers = Empty
    /\ detectedSignals \in RankInputs
    /\ signalOrder \in Orderings(DOMAIN detectedSignals)
    /\ sortedSignals = <<>>
    /\ prevDataRef = Empty
    /\ isPaused = FALSE
    /\ activePreset = "DEFAULT"
    /\ rules = PRESETS["DEFAULT"]
    /\ rulesRef = "DEFAULT"
    /\ clock = 0
    /\ lastFlushAt = NoTime
    /\ advances = 0
    /\ lastPassAt = NoTime
    /\ lastMatchAt = [sym \in Symbols |-> NoTime]
    /\ cooledAt = [sym \in Symbols |-> NoTime]
    /\ requalAt = [sym \in Symbols |-> NoTime]
    /\ InitRest

\* the render that recomputes the memoized list
Rank ==
    /\ sortedSignals' = SortedSignals(detectedSignals, signalOrder)
    /\ UNCHANGED restOfApp
    /\ UNCHANGED <<data, analyzers, detectedSignals, signalOrder, prevDataRef, isPaused,
                   activePreset, rules, rulesRef, clock, lastFlushAt, advances,
                   lastPassAt, lastMatchAt, cooledAt, requalAt>>

\* the display sort on signal maps of up to three symbols
NextRank == Rank

SpecRank == InitRank /\ [][NextRank]_vars

(* ------------------------------------------------------------------ *)
(* Properties                                                          *)
(* ------------------------------------------------------------------ *)

\* this step ran a lifecycle pass (pass times strictly increase)
PassRan == lastPassAt' # lastPassAt

\* this step delivered a flush of the ticker feed
FlushRan == lastFlushAt' # lastFlushAt

\* this step ran the effect: a flush, a pause toggle or a change of the rules
CycleRan ==
    FlushRan \/ isPaused' # isPaused \/ rules' # rules \/ rulesRef' # rulesRef

HasSignal(sym) == sym \in DOMAIN detectedSignals

\* sym matched the rules in the pass of this step
MatchedNow(sym) == sym \in DOMAIN analyzers' /\ IsMatch(analyzers'[sym], rules')

\* C1: a pass that finds an ACTIVE signal not matching leaves it in the map as
\* COOLDOWN with its previous lastActiveAt, whatever time has elapsed.
C1_ActiveKeptOnFirstMiss ==
    [][\A sym \in DOMAIN detectedSignals :
          (PassRan /\ detectedSignals[sym].status = "ACTIVE" /\ ~MatchedNow(sym))
          => /\ sym \in DOMAIN detectedSignals'
             /\ detectedSignals'[sym].status = "COOLDOWN"
             /\ detectedSignals'[sym].lastActiveAt = detectedSignals[sym].lastActiveAt]_vars

\* C2: a signal's lastActiveAt is the time of the most recent pass in which its
\* symbol matched, and it changes only in a matching pass.
C2_LastActiveIsLastMatch ==
    /\ [](\A sym \in DOMAIN detectedSignals :
             detectedSignals[sym].lastActiveAt = lastMatchAt[sym])
    /\ [][\A sym \in DOMAIN detectedSignals \cap DOMAIN detectedSignals' :
             detectedSignals'[sym].lastActiveAt # detectedSignals[sym].lastActiveAt
             => /\ PassRan
                /\ MatchedNow(sym)
                /\ detectedSignals'[sym].lastActiveAt = lastPassAt']_vars

\* C2 witness: a COOLDOWN signal that has been through a later non-matching pass
C2_Witness ==
    \E sym \in DOMAIN detectedSignals :
        /\ detectedSignals[sym].status = "COOLDOWN"
        /\ cooledAt[sym] # NoTime
        /\ cooledAt[sym] < lastPassAt

\* C3: a non-matching pass keeps a COOLDOWN signal as COOLDOWN when
\* loopTime - lastActiveAt < 45000 and removes it otherwise (45000 removes);
\* no pass removes a signal with loopTime - lastActiveAt < 45000.
C3_RetentionBoundary ==
    [][PassRan =>
         \A sym \in DOMAIN detectedSignals :
            /\ (detectedSignals[sym].status = "COOLDOWN" /\ ~MatchedNow(sym))
               => IF lastPassAt' - detectedSignals[sym].lastActiveAt < RETENTION_MS
                  THEN /\ sym \in DOMAIN detectedSignals'
                       /\ detectedSignals'[sym].status = "COOLDOWN"
                  ELSE sym \notin DOMAIN detectedSignals'
            /\ sym \notin DOMAIN detectedSignals'
               => lastPassAt' - detectedSignals[sym].lastActiveAt >= RETENTION_MS]_vars

\* C3 witness: a signal that went to COOLDOWN in one pass and was removed by a
\* later pass exactly 45000 ms after it last matched
C3_Witness ==
    \E sym \in Symbols :
        /\ sym \notin DOMAIN detectedSignals
        /\ cooledAt[sym] # NoTime
        /\ cooledAt[sym] < lastPassAt
        /\ lastPassAt - lastMatchAt[sym] = RETENTION_MS

\* C4: a signal that stopped matching and went from ACTIVE to COOLDOWN at t0
\* (and has not matched or been cleared since) is in the map as COOLDOWN after
\* every pass before t0 + (45000 - 500).
C4_Hysteresis ==
    \A sym \in Symbols :
        (cooledAt[sym] # NoTime /\ lastPassAt < cooledAt[sym] + (RETENTION_MS - DEBOUNCE_MS))
        => /\ sym \in DOMAIN detectedSignals
           /\ detectedSignals[sym].status = "COOLDOWN"

\* C5: a cycle of the running engine at a time now with now - lastActiveAt >= 45000
\* leaves no COOLDOWN signal of a symbol that does not match in the map.
C5_CooldownExpires ==
    [][\A sym \in DOMAIN detectedSignals :
          (/\ FlushRan
           /\ ~isPaused
           /\ detectedSignals[sym].status = "COOLDOWN"
           /\ clock - detectedSignals[sym].lastActiveAt >= RETENTION_MS
           /\ ~MatchedNow(sym))
          => sym \notin DOMAIN detectedSignals']_vars

\* C6: a COOLDOWN signal whose symbol matches becomes ACTIVE with
\* lastActiveAt = the pass time; firstDetectedAt of a signal that stays in the
\* map never changes.
C6_RequalificationKeepsIdentity ==
    [][\A sym \in DOMAIN detectedSignals :
          /\ sym \in DOMAIN detectedSignals'
             => detectedSignals'[sym].firstDetectedAt = detectedSignals[sym].firstDetectedAt
          /\ (PassRan /\ detectedSignals[sym].status = "COOLDOWN" /\ MatchedNow(sym))
             => /\ sym \in DOMAIN detectedSignals'
                /\ detectedSignals'[sym].status = "ACTIVE"
                /\ detectedSignals'[sym].lastActiveAt = lastPassAt']_vars

\* C6 witness: an ACTIVE signal re-qualified from COOLDOWN by the pass that set
\* its lastActiveAt, detected earlier
C6_Witness ==
    \E sym \in DOMAIN detectedSignals :
        /\ detectedSignals[sym].status = "ACTIVE"
        /\ requalAt[sym] = detectedSignals[sym].lastActiveAt
        /\ detectedSignals[sym].firstDetectedAt < detectedSignals[sym].lastActiveAt

C8_FlowBounds ==
    \A sym \in DOMAIN analyzers :
        /\ Ge(analyzers[sym].buyVolume, R(0))
        /\ Ge(analyzers[sym].sellVolume, R(0))
        /\ Ge(analyzers[sym].pressure, R(0))
        /\ Le(analyzers[sym].pressure, R(100))

\* C8 witness: a FlowState holding both buy and sell volume
C8_Witness ==
    \E sym \in DOMAIN analyzers :
        /\ Gt(analyzers[sym].buyVolume, R(0))
        /\ Gt(analyzers[sym].sellVolume, R(0))
        /\ Gt(analyzers[sym].pressure, R(0))
        /\ Lt(analyzers[sym].pressure, R(100))

\* C9 as stated: a flush that changes no ticker (empty batch or the same values)
\* changes no FlowState and no signal's status, lastActiveAt or firstDetectedAt.
C9_IdleCycleChangesNothing ==
    [][(FlushRan /\ ~isPaused /\ data' = data)
       => /\ analyzers' = analyzers
          /\ DOMAIN detectedSignals' = DOMAIN detectedSignals
          /\ \A sym \in DOMAIN detectedSignals :
                /\ detectedSignals'[sym].status = detectedSignals[sym].status
                /\ detectedSignals'[sym].lastActiveAt = detectedSignals[sym].lastActiveAt
                /\ detectedSignals'[sym].firstDetectedAt = detectedSignals[sym].firstDetectedAt]_vars

\* every tracked ticker of d has been absorbed into the stored baseline
Absorbed(d, pd) ==
    \A sym \in TrackedIn(d) : sym \in DOMAIN pd /\ d[sym].volume = pd[sym].vol

\* C9 amended: a cycle that carries no new tick and finds every tracked ticker
\* already absorbed into its baseline changes no FlowState and no signal.
C9_AbsorbedCycleChangesNothing ==
    [][(CycleRan /\ data' = data /\ Absorbed(data, prevDataRef))
       => /\ analyzers' = analyzers
          /\ detectedSignals' = detectedSignals]_vars

\* C9 witness: signals exist and a flush after the last pass found every ticker
\* absorbed
C9_Witness ==
    /\ detectedSignals # Empty
    /\ ~isPaused
    /\ lastPassAt # NoTime
    /\ lastFlushAt > lastPassAt
    /\ Absorbed(data, prevDataRef)
    /\ \E sym \in DOMAIN detectedSignals : IsMatch(analyzers[sym], rules)

\* the six range checks, each bound inclusive
SixChecks(a, r) ==
    /\ Ge(a.totalVolumeWindow, r.minFlowUsdt)
    /\ Ge(a.rvol, r.minRvol)
    /\ Ge(a.pressure, r.minPressure)
    /\ Le(a.pressure, r.maxPressure)
    /\ Ge(a.priceChangePercent, r.minPriceChange)
    /\ Le(a.priceChangePercent, r.maxPriceChange)

\* C10: the rule predicate is true exactly when all six checks hold.
C10_MatchIffSixChecks ==
    \A sym \in DOMAIN analyzers :
        IsMatch(analyzers[sym], rules) <=> SixChecks(analyzers[sym], rules)

\* position in the list of values of the signal that the ranked list shows at place i
PlaceOf(input, out, i) == CHOOSE k \in 1..Len(input) : input[k] = out[i]

\* out lists every signal of input once, ACTIVE before COOLDOWN, by descending score
\* within a status, and in the order of input where status and score are the same
Ranked(input, out) ==
    /\ Len(out) = Len(input)
    /\ \A k \in 1..Len(input) : \E i \in 1..Len(out) : out[i] = input[k]
    /\ \A i, j \in 1..Len(out) :
          i < j =>
             /\ ~(out[i].status = "COOLDOWN" /\ out[j].status = "ACTIVE")
             /\ out[i].status = out[j].status
                => /\ Ge(Score(out[i]), Score(out[j]))
                   /\ Eq(Score(out[i]), Score(out[j]))
                      => PlaceOf(input, out, i) < PlaceOf(input, out, j)

\* C11: the ranked list is a permutation of the signal map's values with every
\* ACTIVE signal before every COOLDOWN signal, descending score within a status,
\* and signals of the same status and score in their input order.
C11_RankedList ==
    [][Ranked(ObjectValues(detectedSignals', signalOrder'), sortedSignals')]_vars

\* C11 witness: a ranked list of three signals that is not in input order, holds a
\* COOLDOWN signal that outscores an ACTIVE one, and holds two signals of the same
\* status and score
C11_Witness ==
    /\ Len(sortedSignals) = 3
    /\ sortedSignals # ObjectValues(detectedSignals, signalOrder)
    /\ \E i, j \in 1..3 :
          /\ sortedSignals[i].status = "ACTIVE"
          /\ sortedSignals[j].status = "COOLDOWN"
          /\ Gt(Score(sortedSignals[j]), Score(sortedSignals[i]))
    /\ \E i, j \in 1..3 :
          /\ i < j
          /\ sortedSignals[i].status = sortedSignals[j].status
          /\ sortedSignals[i].netFlow # sortedSignals[j].netFlow
          /\ Eq(Score(sortedSignals[i]), Score(sortedSignals[j]))

\* the keys of the baseline map, the FlowState map and the signal map
EngineKeys == DOMAIN prevDataRef \cup DOMAIN analyzers \cup DOMAIN detectedSignals

\* sym without its last asset code
BaseOf(sym) == SubSeq(sym, 1, Len(sym) - 1)

\* C12: every key of the baseline map, the FlowState map and the signal map ends in
\* USDT and has a base outside the stablecoin denylist.
C12_ExcludedSymbolsStayOut ==
    \A sym \in EngineKeys :
        /\ Len(sym) > 0
        /\ sym[Len(sym)] = "USDT"
        /\ BaseOf(sym) \notin IGNORED_COINS

\* C12 witness: both excluded symbols have traded after their first report, two
\* passes have run and the tracked symbol has a signal
C12_Witness ==
    /\ \A sym \in {ETHBTC, USDCUSDT} :
          sym \in DOMAIN data /\ Gt(data[sym].volume, R(SessionVolume))
    /\ BTC \in DOMAIN detectedSignals
    /\ lastPassAt > lastMatchAt[BTC]
    /\ EngineKeys = {BTC}

\* C13: a tick batch delivered while the engine is paused changes no FlowState, no
\* baseline and no signal, and the displayed list stays as it was; no step that
\* leaves the engine paused changes a FlowState or a baseline or runs a pass, and
\* the signal map changes under pause only by being cleared.
C13_PauseFreezes ==
    [][/\ (isPaused /\ FlushRan)
          => /\ analyzers' = analyzers
             /\ prevDataRef' = prevDataRef
             /\ detectedSignals' = detectedSignals
             /\ sortedSignals' = sortedSignals
       /\ isPaused'
          => /\ analyzers' = analyzers
             /\ prevDataRef' = prevDataRef
             /\ ~PassRan
             /\ detectedSignals' # detectedSignals => detectedSignals' = Empty]_vars

\* C13 witness: the engine is paused with a signal on display, and a flush during
\* the pause has left a volume delta older than the debounce unprocessed
C13_Witness ==
    /\ isPaused
    /\ detectedSignals # Empty
    /\ lastFlushAt > lastPassAt
    /\ \E sym \in DOMAIN prevDataRef :
          /\ Gt(data[sym].volume, prevDataRef[sym].vol)
          /\ lastFlushAt - prevDataRef[sym].time > DEBOUNCE_MS

\* C14: a step that changes the signal map without a lifecycle pass (clearSignals)
\* leaves it empty and changes no FlowState and no baseline; the next pass gives
\* every symbol whose FlowState matches the rules a new ACTIVE signal stamped
\* with the pass time, and no signal to the others.
C14_ClearThenReappear ==
    [][/\ (detectedSignals' # detectedSignals /\ ~PassRan)
          => /\ detectedSignals' = Empty
             /\ sortedSignals' = <<>>
             /\ analyzers' = analyzers
             /\ prevDataRef' = prevDataRef
       /\ (PassRan /\ detectedSignals = Empty)
          => \A sym \in DOMAIN analyzers' :
                IF IsMatch(analyzers'[sym], rules')
                THEN /\ sym \in DOMAIN detectedSignals'
                     /\ detectedSignals'[sym].status = "ACTIVE"
                     /\ detectedSignals'[sym].firstDetectedAt = lastPassAt'
                     /\ detectedSignals'[sym].lastActiveAt = lastPassAt'
                ELSE sym \notin DOMAIN detectedSignals']_vars

\* C14 witness: after a clear, the last pass re-created the signal of a symbol whose
\* FlowState it did not update and that had matched in an earlier pass, and gave
\* none to a symbol that does not match
C14_Witness ==
    \E sym \in DOMAIN detectedSignals :
        /\ detectedSignals[sym].status = "ACTIVE"
        /\ detectedSignals[sym].firstDetectedAt = lastPassAt
        /\ analyzers[sym].updatedAt + THROTTLE_MS <= lastPassAt
        /\ \E other \in DOMAIN analyzers : other \notin DOMAIN detectedSignals

\* C15: once the stricter preset is in force, a cycle of the running engine leaves
\* every signal that was ACTIVE and whose FlowState fails the new rules in the map
\* as COOLDOWN (the switch itself may be the cycle that does it; the first flush
\* after it is the latest).
C15_StricterPresetCoolsDown ==
    [][\A sym \in DOMAIN detectedSignals :
          (/\ FlushRan
           /\ ~isPaused
           /\ rulesRef = "WHALE_ACCUMULATION"
           /\ detectedSignals[sym].status = "ACTIVE"
           /\ ~MatchedNow(sym))
          => /\ sym \in DOMAIN detectedSignals'
             /\ detectedSignals'[sym].status = "COOLDOWN"]_vars

\* this step switched the active RuleSet
RulesSwitched == rules' # rules \/ rulesRef' # rulesRef \/ activePreset' # activePreset

SnapshotOf(s) ==
    [symbol |-> s.symbol,
     price |-> s.price,
     priceChangePercent |-> s.priceChangePercent,
     buyVolume |-> s.buyVolume,
     sellVolume |-> s.sellVolume,
     totalVolumeWindow |-> s.totalVolumeWindow,
     pressure |-> s.pressure,
     rvol |-> s.rvol,
     netFlow |-> s.netFlow,
     updatedAt |-> s.updatedAt]

\* C17: after every lifecycle pass each signal in the map, ACTIVE or COOLDOWN,
\* carries the current FlowState of its symbol.
C17_SnapshotFollowsFlowState ==
    [][PassRan =>
         \A sym \in DOMAIN detectedSignals' :
            /\ sym \in DOMAIN analyzers'
            /\ SnapshotOf(detectedSignals'[sym]) = analyzers'[sym]]_vars

\* C17 witness: a COOLDOWN signal whose FlowState has been updated after the pass
\* in which it last matched
C17_Witness ==
    \E sym \in DOMAIN detectedSignals :
        /\ detectedSignals[sym].status = "COOLDOWN"
        /\ analyzers[sym].updatedAt > detectedSignals[sym].lastActiveAt
        /\ detectedSignals[sym].updatedAt = analyzers[sym].updatedAt

\* the symbols with a stored baseline whose ticker, in the cycle of this step, is
\* more than 500 ms past the baseline and carries a positive volume delta
Processed ==
    {sym \in DOMAIN prevDataRef \cap DOMAIN data' :
        /\ clock - prevDataRef[sym].time > DEBOUNCE_MS
        /\ Gt(Sub(data'[sym].volume, prevDataRef[sym].vol), R(0))}

\* the accumulator a symbol has before its tick is processed
AccumulatorOf(sym, side) == IF sym \in DOMAIN analyzers THEN analyzers[sym][side] ELSE R(0)

\* C18: a tick processed for a symbol with a baseline, elapsed > 500 ms and
\* volumeDelta > 0 leaves 0.90 times each accumulator plus the whole volumeDelta
\* on the buy side when price - lastObservedPrice >= 0 and on the sell side
\* otherwise.
C18_DecayAndTickRule ==
    [][((CycleRan \/ prevDataRef' # prevDataRef) /\ ~isPaused') =>
         \A sym \in Processed :
            LET volDelta == Sub(data'[sym].volume, prevDataRef[sym].vol)
                buy == Mul(AccumulatorOf(sym, "buyVolume"), Norm(9, 10))
                sell == Mul(AccumulatorOf(sym, "sellVolume"), Norm(9, 10))
            IN  /\ sym \in DOMAIN analyzers'
                /\ IF Ge(Sub(data'[sym].lastPrice, prevDataRef[sym].price), R(0))
                   THEN /\ analyzers'[sym].buyVolume = Add(buy, volDelta)
                        /\ analyzers'[sym].sellVolume = sell
                   ELSE /\ analyzers'[sym].buyVolume = buy
                        /\ analyzers'[sym].sellVolume = Add(sell, volDelta)]_vars

\* C18 witness: a buy of one trade decayed once, followed by a sell of one trade
C18_Witness ==
    \E sym \in DOMAIN analyzers :
        /\ analyzers[sym].buyVolume = Mul(R(TradeVolume), Norm(9, 10))
        /\ analyzers[sym].sellVolume = R(TradeVolume)

\* the derived metrics of a FlowState agree with its accumulators
DerivedAgree(a) ==
    LET sum == Add(a.buyVolume, a.sellVolume)
    IN  /\ a.totalVolumeWindow = sum
        /\ a.netFlow = Sub(a.buyVolume, a.sellVolume)
        /\ a.pressure = IF a.buyVolume = R(0) /\ a.sellVolume = R(0) THEN R(50)
                        ELSE Mul(Div(a.buyVolume, sum), R(100))

\* (volumeDelta / elapsed) / (cumulativeQuoteVolume / 86,400,000) of the tick
\* processed for sym in this step, 0 when the average rate is 0
RvolOfDelta(sym) ==
    LET volumeDelta == Sub(data'[sym].volume, prevDataRef[sym].vol)
        elapsed == clock - prevDataRef[sym].time
        averageRate == Div(data'[sym].volume, R(DAY_MS))
    IN  IF averageRate = R(0) THEN R(0)
        ELSE Div(Div(volumeDelta, R(elapsed)), averageRate)

\* C19: in every stored FlowState pressure, netFlow and the flow total agree
\* with the accumulators (pressure 50 when both are zero), and rvol is the
\* rate ratio of the last processed delta (0 when the average rate is 0): a
\* FlowState changes only in a step that processes a delta of its symbol, and
\* that step sets rvol from this delta.
C19_DerivedMetricsAgree ==
    [][\A sym \in DOMAIN analyzers' :
          /\ DerivedAgree(analyzers'[sym])
          /\ \/ sym \in DOMAIN analyzers /\ analyzers'[sym] = analyzers[sym]
             \/ sym \in Processed /\ analyzers'[sym].rvol = RvolOfDelta(sym)]_vars

\* C19 witness: a FlowState with flow on both sides, sells ahead, and a positive rvol
C19_Witness ==
    \E sym \in DOMAIN analyzers :
        /\ Gt(analyzers[sym].pressure, R(0))
        /\ Lt(analyzers[sym].pressure, R(50))
        /\ Lt(analyzers[sym].netFlow, R(0))
        /\ Gt(analyzers[sym].rvol, R(0))

\* the symbols whose first tick is seen in this step
FirstSeen == DOMAIN prevDataRef' \ DOMAIN prevDataRef

\* the baseline of sym is the ticker of this step's cycle
BaselineSeeded(sym) ==
    /\ sym \in DOMAIN data'
    /\ prevDataRef'[sym] = [vol |-> data'[sym].volume,
                            price |-> data'[sym].lastPrice,
                            time |-> clock]

\* C20: the first tick seen for a symbol creates its FlowState with
\* buyVolume = sellVolume = 0, pressure = 50 and rvol = 0 and seeds the baseline
\* from that tick; FlowStates are never dropped afterwards.
C20_FirstTickCreatesFlowState ==
    [][/\ \A sym \in FirstSeen :
             /\ BaselineSeeded(sym)
             /\ sym \in DOMAIN analyzers'
             /\ analyzers'[sym].buyVolume = R(0)
             /\ analyzers'[sym].sellVolume = R(0)
             /\ analyzers'[sym].pressure = R(50)
             /\ analyzers'[sym].rvol = R(0)
       /\ DOMAIN analyzers \subseteq DOMAIN analyzers']_vars

\* C20 (amended): the first tick seen for a symbol seeds the baseline from that
\* tick and stores no FlowState; a FlowState is created only by a later tick of
\* a symbol with a baseline, processed with elapsed > 500 ms and a positive
\* volume delta, and holds this delta alone; FlowStates are never dropped.
C20_FirstTickSeedsBaselineOnly ==
    [][/\ \A sym \in FirstSeen :
             /\ BaselineSeeded(sym)
             /\ sym \notin DOMAIN analyzers'
       /\ \A sym \in DOMAIN analyzers' \ DOMAIN analyzers :
             /\ sym \in Processed
             /\ analyzers'[sym].totalVolumeWindow
                   = Sub(data'[sym].volume, prevDataRef[sym].vol)
       /\ DOMAIN analyzers \subseteq DOMAIN analyzers'
       /\ DOMAIN analyzers' \subseteq DOMAIN prevDataRef']_vars

\* C20 witness: one symbol has a FlowState while another has been seen and
\* still has none
C20_Witness ==
    /\ DOMAIN analyzers # {}
    /\ DOMAIN prevDataRef \ DOMAIN analyzers # {}

\* no FlowState of sym is created or changed by this step
FlowStateKept(sym) ==
    IF sym \in DOMAIN analyzers
    THEN sym \in DOMAIN analyzers' /\ analyzers'[sym] = analyzers[sym]
    ELSE sym \notin DOMAIN analyzers'

\* C21: a step taken at most 500 ms after a symbol's baseline time leaves the
\* symbol's FlowState and its baseline (volume, price, time) unchanged; exactly
\* 500 ms counts as debounced.
C21_DebounceKeepsState ==
    [][\A sym \in DOMAIN prevDataRef :
          clock - prevDataRef[sym].time <= 500
          => /\ sym \in DOMAIN prevDataRef'
             /\ prevDataRef'[sym] = prevDataRef[sym]
             /\ FlowStateKept(sym)]_vars

\* C21 witness: a flush has just delivered new volume exactly 500 ms after the
\* baseline to the running scanner, and the baseline still holds the old volume
C21_Witness ==
    \E sym \in DOMAIN prevDataRef :
        /\ ~isPaused
        /\ lastFlushAt = clock
        /\ clock - prevDataRef[sym].time = 500
        /\ Gt(data[sym].volume, prevDataRef[sym].vol)

\* this step ran the effect with the scanner not frozen
EffectRan == (CycleRan \/ prevDataRef' # prevDataRef) /\ ~isPaused'

\* C22: an effect run more than 500 ms after a symbol's baseline whose volume
\* delta is not positive (non-increasing or NaN) leaves buyVolume, sellVolume,
\* pressure, rvol and netFlow unchanged and resets the baseline to the new
\* observation; without a processed positive delta no accumulator increases.
C22_NoUsableDelta ==
    [][/\ \A sym \in DOMAIN prevDataRef \cap DOMAIN data' :
             (/\ EffectRan
              /\ clock - prevDataRef[sym].time > 500
              /\ ~Gt(Sub(data'[sym].volume, prevDataRef[sym].vol), R(0)))
             => /\ prevDataRef'[sym] = [vol |-> data'[sym].volume,
                                        price |-> data'[sym].lastPrice,
                                        time |-> clock]
                /\ IF sym \in DOMAIN analyzers
                   THEN /\ sym \in DOMAIN analyzers'
                        /\ \A f \in {"buyVolume", "sellVolume", "pressure", "rvol", "netFlow"} :
                              analyzers'[sym][f] = analyzers[sym][f]
                   ELSE sym \notin DOMAIN analyzers'
       /\ \A sym \in DOMAIN analyzers \ Processed :
             /\ sym \in DOMAIN analyzers'
             /\ Le(analyzers'[sym].buyVolume, analyzers[sym].buyVolume)
             /\ Le(analyzers'[sym].sellVolume, analyzers[sym].sellVolume)]_vars

\* C22 witness: a symbol with a FlowState whose baseline was reset to a tick with
\* an unparsable volume after the FlowState's last update
C22_Witness ==
    \E sym \in DOMAIN analyzers :
        /\ IsNaN(prevDataRef[sym].vol)
        /\ prevDataRef[sym].time > analyzers[sym].updatedAt

\* C23: whenever the active preset name is one of the canonical presets, the
\* active thresholds equal that preset's canonical six values.
C23_PresetNameMeansCanonicalRules ==
    activePreset \in PresetName => rules = PRESETS[activePreset]

\* the spike condition of sym on the cycle of this step, written out
SpikeCondition(sym) ==
    /\ sym \in DOMAIN historyRef
    /\ clock - historyRef[sym].time >= 1000
    /\ Gt(Sub(data'[sym].volume, historyRef[sym].vol), R(0))
    /\ Gt(Div(data'[sym].volume, R(86400000)), R(0))
    /\ Ge(Div(Div(Sub(data'[sym].volume, historyRef[sym].vol),
                  R(clock - historyRef[sym].time)),
              Div(data'[sym].volume, R(86400000))), R(10))

\* this step recorded a spike for sym
SpikeRecorded(sym) == sym \in DOMAIN spikes' /\ spikes'[sym].timestamp = clock

\* C24: a radar cycle records a spike for a USDT symbol exactly when the symbol
\* has a baseline, elapsed >= 1000 ms, the volume delta is > 0, the 24h-average
\* rate is > 0 and the rate ratio is >= 10; the baseline is refreshed exactly on
\* the symbol's first tick and on cycles with elapsed >= 1000 ms.
C24_SpikeDetection ==
    [][FlushRan =>
         \A sym \in {k \in DOMAIN data' : EndsWithUSDT(k)} :
            /\ SpikeRecorded(sym) <=> SpikeCondition(sym)
            /\ IF sym \notin DOMAIN historyRef \/ clock - historyRef[sym].time >= 1000
               THEN historyRef'[sym] = [vol |-> data'[sym].volume, time |-> clock]
               ELSE historyRef'[sym] = historyRef[sym]]_vars

\* C24 witness: a recorded spike whose ratio is exactly 10
C24_Witness ==
    \E sym \in DOMAIN spikes :
        /\ spikes[sym].ratio = R(10)
        /\ spikes[sym].timestamp = clock

\* C25: on every radar cycle an entry of the spike set with now - timestamp
\* < 5 minutes stays (unchanged, or replaced by a spike recorded in this cycle),
\* whether or not the spike condition holds, and an entry with now - timestamp
\* >= 5 minutes is dropped; the set holds one entry per symbol.
C25_SpikeRetention ==
    [][FlushRan =>
         \A sym \in DOMAIN spikes :
            IF clock - spikes[sym].timestamp < 5 * 60 * 1000
            THEN /\ sym \in DOMAIN spikes'
                 /\ IF sym \in DOMAIN data' /\ SpikeCondition(sym)
                    THEN spikes'[sym].timestamp = clock
                    ELSE spikes'[sym] = spikes[sym]
            ELSE sym \in DOMAIN spikes' => SpikeRecorded(sym)]_vars

\* C25 witness: an entry recorded 299999 ms before the last cycle is still held
C25_Witness ==
    \E sym \in DOMAIN spikes :
        /\ lastFlushAt = clock
        /\ clock - spikes[sym].timestamp = 5 * 60 * 1000 - 1

\* the detectors emitted an event of this type for sym in the recomputation of this step
Emits(sym, type) ==
    \E i \in 1..Len(emitted') : emitted'[i].symbol = sym /\ emitted'[i].type = type

BoardSymbols == DOMAIN data' \cup DOMAIN futuresData' \cup DOMAIN spikes'

SpotChange(sym) == data'[sym].priceChangePercent

FundingRate(sym) == futuresData'[sym].fundingRate

\* the triggers of the funding detectors and the severities, on the snapshot of this step
FundingTriggersAndSeverity ==
    /\ \A sym \in BoardSymbols :
          /\ Emits(sym, "NEG_FUNDING")
                <=> sym \in DOMAIN futuresData' /\ Lt(FundingRate(sym), Norm(0 - 5, 10000))
          /\ Emits(sym, "DIV_BULL")
                <=> /\ sym \in DOMAIN futuresData' \cap DOMAIN data'
                    /\ Le(FundingRate(sym), Norm(0 - 3, 10000))
                    /\ Gt(SpotChange(sym), R(1))
          /\ Emits(sym, "DIV_BEAR")
                <=> /\ sym \in DOMAIN futuresData' \cap DOMAIN data'
                    /\ Ge(FundingRate(sym), Norm(3, 10000))
                    /\ Lt(SpotChange(sym), R(0 - 1))
          /\ Emits(sym, "VOLUME_SPIKE") <=> sym \in DOMAIN spikes'
    /\ \A i \in 1..Len(emitted') :
          emitted'[i].severity =
             IF \/ emitted'[i].type \in {"DIV_BULL", "DIV_BEAR"}
                \/ emitted'[i].type = "VOLUME_SPIKE" /\ Gt(emitted'[i].value, R(50))
             THEN "HIGH" ELSE "MEDIUM"

\* C26: the detectors emit an event for a symbol exactly when the trigger holds
\* on the latest snapshot (surge iff 24h change > 5, dump iff < -5, negative
\* funding iff rate < -0.0005, bullish divergence iff rate <= -0.0003 and change
\* > 1, bearish iff rate >= 0.0003 and change < -1); divergences and spikes with
\* ratio > 50 are HIGH, every other event MEDIUM.
C26_EventIffTrigger ==
    [][emitted' # emitted =>
         /\ \A sym \in BoardSymbols :
               /\ Emits(sym, "PUMP") <=> sym \in DOMAIN data' /\ Gt(SpotChange(sym), R(5))
               /\ Emits(sym, "DUMP") <=> sym \in DOMAIN data' /\ Lt(SpotChange(sym), R(0 - 5))
         /\ FundingTriggersAndSeverity]_vars

\* C26 (amended): as C26, the surge and dump detectors looking only at spot
\* symbols that end in USDT; the board shows the first four events, HIGH first.
C26_EventIffTriggerOnUSDT ==
    [][emitted' # emitted =>
         /\ \A sym \in BoardSymbols :
               /\ Emits(sym, "PUMP")
                     <=> /\ sym \in DOMAIN data'
                         /\ EndsWithUSDT(sym)
                         /\ Gt(SpotChange(sym), R(5))
               /\ Emits(sym, "DUMP")
                     <=> /\ sym \in DOMAIN data'
                         /\ EndsWithUSDT(sym)
                         /\ Lt(SpotChange(sym), R(0 - 5))
         /\ FundingTriggersAndSeverity
         /\ Len(anomalies') = (IF Len(emitted') < 4 THEN Len(emitted') ELSE 4)
         /\ \A i \in 1..Len(anomalies') :
               /\ \E j \in 1..Len(emitted') : emitted'[j] = anomalies'[i]
               /\ anomalies'[i].severity # "HIGH"
                     => \A j \in 1..Len(emitted') :
                           emitted'[j].severity = "HIGH"
                             => \E k \in 1..Len(anomalies') : anomalies'[k] = emitted'[j]]_vars

\* C26 witness: a bullish divergence emitted at a funding rate of exactly
\* -0.0003, next to a pair not quoted in USDT that is up 6% and has no event
C26_Witness ==
    /\ \E i \in 1..Len(emitted) :
          /\ emitted[i].type = "DIV_BULL"
          /\ emitted[i].value = Mul(Norm(0 - 3, 10000), R(100))
    /\ ETHBTC \in DOMAIN data
    /\ data[ETHBTC].priceChangePercent = R(6)
    /\ \A i \in 1..Len(emitted) : emitted[i].symbol # ETHBTC

\* every divergence signal emitted so far: those waiting for their timer and
\* those in the signals list
EmittedSignals == Flatten(signalTimers) \o signals

\* the time a signal was emitted at, the now of its id
EmittedAt(sig) == sig.id[2]

\* C27: the divergence detector emits a signal for a symbol only if more than
\* 15000 ms have passed since the last signal it emitted for that symbol; any
\* two emitted signals of one symbol are more than 15000 ms apart, and one
\* futures update emits at most one signal per symbol.
C27_DivergenceCooldown ==
    [][/\ signalTimers' # signalTimers /\ Len(signalTimers') > Len(signalTimers)
          => LET new == signalTimers'[Len(signalTimers')]
             IN  \A i \in 1..Len(new) :
                    /\ new[i].strategy = "SmartMoney_Divergence"
                    /\ EmittedAt(new[i]) = StartTime + clock
                    /\ \A j \in 1..Len(EmittedSignals) :
                          EmittedSignals[j].symbol = new[i].symbol
                            => EmittedAt(new[i]) - EmittedAt(EmittedSignals[j]) > 15000
                    /\ \A j \in 1..Len(new) : new[j].symbol = new[i].symbol => j = i
       /\ \A i, j \in 1..Len(EmittedSignals') :
             (i # j /\ EmittedSignals'[i].symbol = EmittedSignals'[j].symbol)
             => \/ EmittedAt(EmittedSignals'[i]) - EmittedAt(EmittedSignals'[j]) > 15000
                \/ EmittedAt(EmittedSignals'[j]) - EmittedAt(EmittedSignals'[i]) > 15000]_vars

\* C27 witness: two signals of one symbol emitted 15001 ms apart
C27_Witness ==
    \E i, j \in 1..Len(signals) :
        /\ signals[i].symbol = signals[j].symbol
        /\ EmittedAt(signals[i]) - EmittedAt(signals[j]) = 15001

\* the symbols of the messages in list
ReceivedSymbols(list) == UNION {DOMAIN list[i] : i \in 1..Len(list)}

\* the tick of sym in the last message of list that carries sym
MostRecent(list, sym) ==
    list[CHOOSE i \in 1..Len(list) :
            /\ sym \in DOMAIN list[i]
            /\ \A j \in (i + 1)..Len(list) : sym \notin DOMAIN list[j]][sym]

\* C28: tick ingestion coalesces latest-wins per symbol inside a 1000 ms
\* throttle window: at most one flush timer is pending at any time; a flush
\* comes no sooner than 1000 ms after the first message since the previous one,
\* delivers for every symbol received since then exactly its most recently
\* received tick, and empties the buffer; after disconnect the pending flush
\* is cancelled and the update callback is not invoked again.
C28_LatestWinsThrottle ==
    [][/\ Len(timers') <= 1
       /\ deliveries' # deliveries
          => /\ deliveries' = deliveries + 1
             /\ received # <<>>
             /\ throttleTimer # NoTime /\ clock >= throttleTimer
             /\ DOMAIN lastDelivered' = ReceivedSymbols(received)
             /\ \A sym \in ReceivedSymbols(received) :
                   lastDelivered'[sym] = MostRecent(received, sym)
             /\ data' = Merge(data, lastDelivered')
             /\ pendingUpdates' = Empty
             /\ timers' = <<>>
       /\ ~wsOpen' => timers' = <<>> /\ deliveries' = deliveries]_vars

\* C28 witness: one flush delivered the ticks of two messages, a later message
\* set the timer again, and disconnect cancelled it with its tick still buffered
C28_Witness ==
    /\ deliveries = 1
    /\ DOMAIN lastDelivered = FeedSymbols
    /\ ~wsOpen
    /\ pendingUpdates # Empty
    /\ throttleTimer # NoTime
    /\ timers = <<>>

\* the symbols whose stored FlowState the cycle of this step left as it was
Untouched == {sym \in DOMAIN analyzers : analyzers'[sym] = analyzers[sym]}

\* C29: each lifecycle pass evaluates every stored FlowState, not only those
\* updated in its cycle: a symbol without a new FlowState whose stored metrics
\* satisfy the rules is ACTIVE with lastActiveAt = the pass time after every
\* pass, whatever its signal was before, so it neither cools down nor expires
\* while other symbols produce updates.
C29_PassEvaluatesEveryFlowState ==
    [][PassRan =>
         \A sym \in Untouched :
            IsMatch(analyzers[sym], rules')
            => /\ sym \in DOMAIN detectedSignals'
               /\ detectedSignals'[sym].status = "ACTIVE"
               /\ detectedSignals'[sym].lastActiveAt = lastPassAt'
               /\ sym \in DOMAIN detectedSignals
                  => detectedSignals'[sym].firstDetectedAt = detectedSignals[sym].firstDetectedAt]_vars

\* C29 witness: an ACTIVE signal refreshed by a pass that another symbol's
\* update caused, 22500 ms or more after the last update of its own FlowState
C29_Witness ==
    \E sym \in DOMAIN detectedSignals, other \in DOMAIN analyzers :
        /\ other # sym
        /\ detectedSignals[sym].status = "ACTIVE"
        /\ detectedSignals[sym].lastActiveAt = lastPassAt
        /\ analyzers[other].updatedAt >= lastPassAt - 1
        /\ lastPassAt - analyzers[sym].updatedAt >= 22500

\* C30: in every reachable state the signal map holds at most one signal per
\* symbol (each entry is filed under its own symbol, and the displayed list
\* shows each symbol once), every signal's symbol has a FlowState, its status
\* is ACTIVE or COOLDOWN, and firstDetectedAt <= lastActiveAt.
C30_SignalMapWellFormed ==
    /\ \A sym \in DOMAIN detectedSignals :
          /\ detectedSignals[sym].symbol = sym
          /\ sym \in DOMAIN analyzers
          /\ detectedSignals[sym].status \in {"ACTIVE", "COOLDOWN"}
          /\ detectedSignals[sym].firstDetectedAt <= detectedSignals[sym].lastActiveAt
    /\ Len(sortedSignals) = Cardinality(DOMAIN detectedSignals)
    /\ \A i, j \in 1..Len(sortedSignals) :
          sortedSignals[i].symbol = sortedSignals[j].symbol => i = j

\* C30 witness: signals of two symbols at once, one of them refreshed by a pass
\* later than the one that detected it
C30_Witness ==
    /\ Cardinality(DOMAIN detectedSignals) = 2
    /\ \E sym \in DOMAIN detectedSignals :
          detectedSignals[sym].firstDetectedAt < detectedSignals[sym].lastActiveAt

====
